---- MODULE Spec2Model ----
(***************************************************************************)
(* Model of the tunnel process supervisor (class TunnelManager) of the     *)
(* GM Vault exporter plugin: the instance fields tunnel / publicUrl, the   *)
(* per-call closure state of start() (urlResolved, timeoutId, the promise  *)
(* returned to the caller), and the subprocess each call spawns.           *)
(*                                                                         *)
(* JavaScript runs the handlers one at a time on one event loop, so each   *)
(* handler (a start() entry, the continuation after the await, a 'data',   *)
(* 'error' or 'close' event, the setTimeout callback, stop()) is one       *)
(* atomic action.  The closure buffers output and errorOutput are only     *)
(* read to build the text of the rejection errors; no guard reads them,    *)
(* and they are not part of this state.                                    *)
(*                                                                         *)
(* The second half models the local HTTP dispatcher (class ServerManager): *)
(* the field server, the http.Server each start() creates, the promises    *)
(* of start() and stop(), the route table and the exchange made for a      *)
(* request.  The tunnel supervisor is checked under Spec, the dispatcher's *)
(* lifecycle under ServerSpec and its routing under DispatchSpec.          *)
(*                                                                         *)
(* The last parts model the provisioning of the binary (_ensureCloudflared *)
(* and the download, under ResolveSpec) and the commands of the            *)
(* PluginController that drive both components (under ControllerSpec).     *)
(***************************************************************************)
EXTENDS Integers, Sequences, FiniteSets, TLC

\* Number of start() calls made on the one TunnelManager instance.
MaxCalls == 2

Calls == 1..MaxCalls

\* this.tunnel = null (a held handle is named by the call that spawned it).
Null == 0

\* this.publicUrl = null.
NullUrl == <<>>

VARIABLES
    tunnel,       \* this.tunnel: Null or the call whose subprocess is held
    publicUrl,    \* this.publicUrl: NullUrl or a lower-cased hostname
    pc,           \* per call: "new", "ensuring", "acquiring", "done"
    outcome,      \* per call: the promise start() returned, [kind, val]
    urlResolved,  \* per call: the closure flag urlResolved
    timer,        \* per call: timeoutId: "none", "armed", "cleared", "fired"
    proc,         \* per call: its subprocess: "none", "running", "spawnfail",
                  \*           "errored", "closed"
    killed,       \* per call: kill() has been called on its subprocess
    exitCode,     \* per call: the code its 'close' event carried, or "none"
    lastOp        \* history: what ran last: "init", a "start" call, a "stop"
                  \*          call, or an "event" (continuation, stream, timer)

vars == <<tunnel, publicUrl, pc, outcome, urlResolved, timer, proc, killed,
          exitCode, lastOp>>

\* Number of ServerManager.start() calls, stop() calls and registerRoute calls.
MaxStarts == 2
MaxStops == 2
MaxRoutes == 3

StartCalls == 1..MaxStarts
StopCalls == 1..MaxStops

\* A request that was never made.
NoRequest == [method |-> "none", target |-> <<>>]

\* A response nothing was written to: no status line, no body, no header.
NoStatus == 0
NoBody == [type |-> "none", obj |-> <<>>]
NoHeaders == <<>>

VARIABLES
    server,       \* this.server: Null or the start() call whose http.Server is held
    lsn,          \* per start() call: the http.Server it created, [st, closing, err]
                  \*   st: "none", "binding", "failing" (its 'error' is due),
                  \*       "listening", "failed", "closed"
                  \*   closing: close() was called and its 'close' event is due
    srvStart,     \* per start() call: its promise: "none", "pending", "resolved",
                  \*   "AlreadyRunning", "PortInUse", "ListenError"
    srvStop,      \* per stop() call: its promise, [kind, on]: "none", "pending",
                  \*   "resolved"; on = the http.Server it closes, or Null
    routes,       \* this.routes: the Map in insertion order, [method, path, fn]
    regs,         \* history: the registerRoute calls in call order
    resp          \* the exchange of the last request handled

svars == <<server, lsn, srvStart, srvStop, routes, regs, resp>>

allvars == <<vars, svars>>

\* The exchange before any request.
NoExchange ==
    [req |-> NoRequest, regs |-> <<>>, status |-> NoStatus, body |-> NoBody,
     headers |-> NoHeaders, invoked |-> <<>>, route |-> <<>>, params |-> <<>>,
     threw |-> FALSE]

\* new ServerManager(port).
ServerInit ==
    /\ server = Null
    /\ lsn = [c \in StartCalls |-> [st |-> "none", closing |-> FALSE, err |-> "none"]]
    /\ srvStart = [c \in StartCalls |-> "none"]
    /\ srvStop = [k \in StopCalls |-> [kind |-> "none", on |-> Null]]
    /\ routes = <<>>
    /\ regs = <<>>
    /\ resp = NoExchange

----------------------------------------------------------------------------
(* Text.  A chunk of subprocess output is a sequence of tokens:            *)
(*   "P" = https://   "Q" = the same in upper/mixed case (HTTPS://)        *)
(*   "a","b" = a character of [a-z0-9-]   "A" = upper-case "a"             *)
(*   "S" = .trycloudflare.com   "T" = the same in upper case               *)
(*   "x" = any other character                                             *)

IsScheme(t) == t \in {"P", "Q"}
IsLabel(t)  == t \in {"a", "b", "A"}
IsSuffix(t) == t \in {"S", "T"}

\* First index at or after i that holds no label character ([a-z0-9-]+ is greedy).
RECURSIVE LabelEnd(_, _)
LabelEnd(text, i) ==
    IF i <= Len(text) /\ IsLabel(text[i]) THEN LabelEnd(text, i + 1) ELSE i

\* Index of the last token of a match that starts at i, or 0.
MatchAt(text, i) ==
    IF i <= Len(text) /\ IsScheme(text[i])
    THEN LET j == LabelEnd(text, i + 1)
         IN  IF j > i + 1 /\ j <= Len(text) /\ IsSuffix(text[j]) THEN j ELSE 0
    ELSE 0

\* text.match(/https:\/\/[a-z0-9-]+\.trycloudflare\.com/gi): all matches, in order.
RECURSIVE MatchFrom(_, _)
MatchFrom(text, i) ==
    IF i > Len(text) THEN <<>>
    ELSE LET j == MatchAt(text, i)
         IN  IF j > 0 THEN <<SubSeq(text, i, j)>> \o MatchFrom(text, j + 1)
             ELSE MatchFrom(text, i + 1)

UrlMatch(text) == MatchFrom(text, 1)

Lower(t) == CASE t = "Q" -> "P" [] t = "A" -> "a" [] t = "T" -> "S" [] OTHER -> t

ToLowerCase(s) == [i \in 1..Len(s) |-> Lower(s[i])]

\* The chunks the subprocess may write.
ChunkTexts ==
    { <<"x">>,
      <<"Q", "b", "T", "P", "a", "S">> }

\* Exit codes a 'close' event of a process that was running may carry.
ExitCodes == {"0", "1", "null"}

\* The code of the 'close' event that follows a failed spawn (-errno).
SpawnFailCode == "-2"

----------------------------------------------------------------------------
(* The promise returned by start().                                        *)

Pending == [kind |-> "pending", val |-> <<>>]
NotCalled == [kind |-> "none", val |-> <<>>]

Resolved(url) == [kind |-> "resolved", val |-> url]
Rejected(err, val) == [kind |-> err, val |-> val]

Settled(c) == outcome[c].kind \notin {"none", "pending"}

\* Number of _ensureCloudflared resolutions (start() makes one per call that
\* passes its guard).
MaxResolves == 3

Resolves == 1..MaxResolves

\* _getLocalBinaryPath() of a manager without pluginDir, and a promise of
\* _ensureCloudflared that has not settled.
NoPath == "null"
NoResult == "none"

VARIABLES
    host,         \* the machine: [os, cpu, pluginDir, which, wk]
                  \*   os, cpu: platform() and arch()
                  \*   pluginDir: this.pluginDir is set
                  \*   which: the command search finds "none", a copy that
                  \*          "works", or a "broken" copy
                  \*   wk: per entry of systemPaths: `--version` succeeds
    managed,      \* the managed binary file: "absent", "good" (`--version`
                  \*   succeeds), "bad", "partial" (open for writing)
    binDir,       \* existsSync(binDir)
    resolution,   \* per resolution: [pc, result]
                  \*   pc: "new", "requesting" (https.get was issued),
                  \*       "streaming" (the file stream is open), "stalled"
                  \*       (the response stopped, the stream is open), "done"
                  \*   result: NoResult, the path returned, or the error thrown
    probe,        \* history: the last entry into _ensureCloudflared:
                  \*   [r, bundled, trail, asset], trail = the candidates it
                  \*   tried in order, [path, found, ran, ok]
    ctl,          \* PluginController: [phase, srv, tun, stop, notice, publicUrl,
                  \*   halt, haltCmd]
    capture,      \* per start() call: [out, err, diag, n]
                  \*   out, err: the closure variables output and errorOutput
                  \*   diag: the output text attached to the error the call
                  \*         rejected with, or NoDiag
                  \*   n: history, the chunks received
    download      \* one _downloadFile response: [pc, total, got, last, reports, n]
                  \*   pc: "new", "streaming", "done", "rejected"
                  \*   total: totalSize; got: downloadedSize
                  \*   last: lastReportedPercent
                  \*   reports: history, the percentages passed to
                  \*            _reportProgress, in order
                  \*   n: history, the chunks received

pvars == <<host, managed, binDir, resolution, probe>>

\* The captured output and the download counters.
dvars == <<capture, download>>

\* What the supervisor and the dispatcher never touch.
rest == <<pvars, ctl, dvars>>

\* No error text was built.
NoDiag == [from |-> 0, to |-> -1]

\* let output = ''; let errorOutput = '', and no response received.
StreamsIdle ==
    /\ capture = [c \in Calls |->
                     [out |-> <<>>, err |-> <<>>, diag |-> NoDiag, n |-> 0]]
    /\ download = [pc |-> "new", total |-> 0, got |-> 0, last |-> -1,
                   reports |-> <<>>, n |-> 0]

\* A machine on which no resolution has run, and a controller that has been
\* initialized, has a session folder selected and is running no command.
ProvisionIdle ==
    /\ host = [os |-> "linux", cpu |-> "x64", pluginDir |-> TRUE,
               which |-> "none", wk |-> [i \in 1..2 |-> FALSE]]
    /\ managed = "absent"
    /\ binDir = FALSE
    /\ resolution = [r \in Resolves |-> [pc |-> "new", result |-> NoResult]]
    /\ probe = [r |-> Null, bundled |-> FALSE, trail |-> <<>>, asset |-> "none"]

ControllerIdle ==
    ctl = [phase |-> "idle", srv |-> Null, tun |-> Null, stop |-> Null,
           notice |-> "none", publicUrl |-> NullUrl,
           halt |-> "idle", haltCmd |-> "none"]

\* A settle that replaces an earlier outcome.
SettleOverwrite(o, c, res) == [o EXCEPT ![c] = res]

\* resolve(...) / reject(...): only the first call on a promise has an effect.
Settle(o, c, res) ==
    IF o[c].kind = "pending" THEN [o EXCEPT ![c] = res] ELSE o

----------------------------------------------------------------------------
TunnelInit ==
    /\ tunnel = Null
    /\ publicUrl = NullUrl
    /\ pc = [c \in Calls |-> "new"]
    /\ outcome = [c \in Calls |-> NotCalled]
    /\ urlResolved = [c \in Calls |-> FALSE]
    /\ timer = [c \in Calls |-> "none"]
    /\ proc = [c \in Calls |-> "none"]
    /\ killed = [c \in Calls |-> FALSE]
    /\ exitCode = [c \in Calls |-> "none"]
    /\ lastOp = "init"

Init == TunnelInit /\ ServerInit /\ ProvisionIdle /\ ControllerIdle /\ StreamsIdle

isActive == tunnel # Null

getPublicUrl == publicUrl

\* subprocess.kill() on a held handle (this.tunnel?.kill()).
Kill(k, h) == IF h = Null THEN k ELSE [k EXCEPT ![h] = TRUE]

\* start() calls are numbered in the order they are made.
IsNextCall(c) == IF c = 1 THEN TRUE ELSE pc[c - 1] # "new"

\* start() without its entry guard.
StartCallUnguarded(c) ==
    /\ pc[c] = "new"
    /\ IsNextCall(c)
    /\ pc' = [pc EXCEPT ![c] = "ensuring"]
    /\ outcome' = [outcome EXCEPT ![c] = Pending]
    /\ lastOp' = "start"
    /\ UNCHANGED svars
    /\ UNCHANGED <<tunnel, publicUrl, urlResolved, timer, proc, killed, exitCode>>

\* start(), up to the await: the entry guard on this.tunnel.
StartCall(c) ==
    /\ pc[c] = "new"
    /\ IsNextCall(c)
    /\ IF tunnel # Null
       THEN /\ pc' = [pc EXCEPT ![c] = "done"]
            /\ outcome' = [outcome EXCEPT ![c] = Rejected("AlreadyActive", <<>>)]
       ELSE /\ pc' = [pc EXCEPT ![c] = "ensuring"]
            /\ outcome' = [outcome EXCEPT ![c] = Pending]
    /\ lastOp' = "start"
    /\ UNCHANGED svars
    /\ UNCHANGED <<tunnel, publicUrl, urlResolved, timer, proc, killed, exitCode>>

\* start() after the await, with the handle assigned before the result of
\* the resolution is looked at.
EnsureDoneHandleFirst(c) ==
    /\ pc[c] = "ensuring"
    /\ tunnel' = c
    /\ \E found \in BOOLEAN :
        IF ~found
        THEN /\ pc' = [pc EXCEPT ![c] = "done"]
             /\ outcome' = Settle(outcome, c, Rejected("ResolveFailed", <<>>))
             /\ UNCHANGED <<timer, proc>>
        ELSE /\ pc' = [pc EXCEPT ![c] = "acquiring"]
             /\ \E spawned \in BOOLEAN :
                    proc' = [proc EXCEPT ![c] = IF spawned THEN "running" ELSE "spawnfail"]
             /\ timer' = [timer EXCEPT ![c] = "armed"]
             /\ UNCHANGED outcome
    /\ lastOp' = "event"
    /\ UNCHANGED svars
    /\ UNCHANGED <<publicUrl, urlResolved, killed, exitCode>>

\* start(), after the await: _ensureCloudflared threw, or the promise
\* executor runs: spawn, attach the handlers, arm the timer.
EnsureDone(c) ==
    /\ pc[c] = "ensuring"
    /\ \E found \in BOOLEAN :
        IF ~found
        THEN /\ pc' = [pc EXCEPT ![c] = "done"]
             /\ outcome' = Settle(outcome, c, Rejected("ResolveFailed", <<>>))
             /\ UNCHANGED <<tunnel, timer, proc>>
        ELSE /\ pc' = [pc EXCEPT ![c] = "acquiring"]
             /\ tunnel' = c
             /\ \E spawned \in BOOLEAN :
                    proc' = [proc EXCEPT ![c] = IF spawned THEN "running" ELSE "spawnfail"]
             /\ timer' = [timer EXCEPT ![c] = "armed"]
             /\ UNCHANGED outcome
    /\ lastOp' = "event"
    /\ UNCHANGED svars
    /\ UNCHANGED <<publicUrl, urlResolved, killed, exitCode>>

\* tryResolveUrl(text)
TryResolveUrl(c, text) ==
    LET m == UrlMatch(text)
    IN  IF ~urlResolved[c] /\ Len(m) > 0
        THEN /\ publicUrl' = ToLowerCase(m[1])
             /\ urlResolved' = [urlResolved EXCEPT ![c] = TRUE]
             /\ timer' = [timer EXCEPT ![c] = IF @ = "armed" THEN "cleared" ELSE @]
             /\ outcome' = Settle(outcome, c, Resolved(ToLowerCase(m[1])))
        ELSE UNCHANGED <<publicUrl, urlResolved, timer, outcome>>

\* stdout / stderr 'data' handler
OnData(c, text) ==
    /\ proc[c] = "running"
    /\ TryResolveUrl(c, text)
    /\ lastOp' = "event"
    /\ UNCHANGED svars
    /\ UNCHANGED <<tunnel, pc, proc, killed, exitCode>>

\* 'error' handler (the spawn failed)
OnError(c) ==
    /\ proc[c] = "spawnfail"
    /\ proc' = [proc EXCEPT ![c] = "errored"]
    /\ outcome' = Settle(outcome, c, Rejected("SpawnError", <<>>))
    /\ lastOp' = "event"
    /\ UNCHANGED svars
    /\ UNCHANGED <<tunnel, publicUrl, pc, urlResolved, timer, killed, exitCode>>

\* A close handler that treats every exit code as a failure.
CloseHandlerAnyCode(c, code) ==
    IF ~urlResolved[c]
    THEN /\ tunnel' = Null
         /\ publicUrl' = NullUrl
         /\ outcome' = Settle(outcome, c, Rejected("Exit", <<code>>))
    ELSE UNCHANGED <<tunnel, publicUrl, outcome>>

\* body of the 'close' handler
CloseHandler(c, code) ==
    IF ~urlResolved[c] /\ code # "0" /\ code # "null"
    THEN /\ tunnel' = Null
         /\ publicUrl' = NullUrl
         /\ outcome' = Settle(outcome, c, Rejected("Exit", <<code>>))
    ELSE UNCHANGED <<tunnel, publicUrl, outcome>>

\* 'close' event of the subprocess of call c
OnClose(c) ==
    /\ proc[c] \in {"running", "errored"}
    /\ \E code \in (IF proc[c] = "running" THEN ExitCodes ELSE {SpawnFailCode}) :
        /\ exitCode' = [exitCode EXCEPT ![c] = code]
        /\ CloseHandler(c, code)
    /\ proc' = [proc EXCEPT ![c] = "closed"]
    /\ lastOp' = "event"
    /\ UNCHANGED svars
    /\ UNCHANGED <<pc, urlResolved, timer, killed>>

\* the setTimeout callback of call c
TimerFire(c) ==
    /\ timer[c] = "armed"
    /\ timer' = [timer EXCEPT ![c] = "fired"]
    /\ IF ~urlResolved[c]
       THEN /\ killed' = Kill(killed, tunnel)
            /\ tunnel' = Null
            /\ outcome' = Settle(outcome, c, Rejected("Timeout", <<>>))
       ELSE UNCHANGED <<killed, tunnel, outcome>>
    /\ lastOp' = "event"
    /\ UNCHANGED svars
    /\ UNCHANGED <<publicUrl, pc, urlResolved, proc, exitCode>>

\* stop() that keeps the stored URL.
StopKeepUrl ==
    /\ IF tunnel = Null
       THEN UNCHANGED <<killed, tunnel, publicUrl>>
       ELSE /\ killed' = Kill(killed, tunnel)
            /\ tunnel' = Null
            /\ UNCHANGED publicUrl
    /\ lastOp' = "stop"
    /\ UNCHANGED svars
    /\ UNCHANGED <<pc, outcome, urlResolved, timer, proc, exitCode>>

\* stop()
Stop ==
    /\ IF tunnel = Null
       THEN UNCHANGED <<killed, tunnel, publicUrl>>
       ELSE /\ killed' = Kill(killed, tunnel)
            /\ tunnel' = Null
            /\ publicUrl' = NullUrl
    /\ lastOp' = "stop"
    /\ UNCHANGED svars
    /\ UNCHANGED <<pc, outcome, urlResolved, timer, proc, exitCode>>

Next ==
    \/ \E c \in Calls : StartCall(c) /\ UNCHANGED rest
    \/ \E c \in Calls : EnsureDone(c) /\ UNCHANGED rest
    \/ \E c \in Calls : \E text \in ChunkTexts :
           OnData(c, text) /\ UNCHANGED rest
    \/ \E c \in Calls : OnError(c) /\ UNCHANGED rest
    \/ \E c \in Calls : OnClose(c) /\ UNCHANGED rest
    \/ \E c \in Calls : TimerFire(c) /\ UNCHANGED rest
    \/ Stop /\ UNCHANGED rest

Spec == Init /\ [][Next]_vars

\* The chunks of the serial specification: one without a hostname, one with
\* two hostnames of which the first is written in upper case, and one with
\* another hostname.
ScanTexts ==
    { <<"x">>,
      <<"Q", "b", "T", "P", "a", "S">>,
      <<"x", "P", "b", "a", "S">> }

\* Every earlier start() call has settled or had its subprocess killed: the
\* caller does not start a session while another one is being acquired.
EarlierCallsOver(c) == \A e \in Calls : e < c => (Settled(e) \/ killed[e])

\* The supervisor driven by a caller that makes its start() calls one after
\* another, with subprocesses that write the chunks of ScanTexts.
SerialNext ==
    \/ \E c \in Calls : EarlierCallsOver(c) /\ StartCall(c) /\ UNCHANGED rest
    \/ \E c \in Calls : EnsureDone(c) /\ UNCHANGED rest
    \/ \E c \in Calls : \E text \in ScanTexts :
           OnData(c, text) /\ UNCHANGED rest
    \/ \E c \in Calls : OnError(c) /\ UNCHANGED rest
    \/ \E c \in Calls : OnClose(c) /\ UNCHANGED rest
    \/ \E c \in Calls : TimerFire(c) /\ UNCHANGED rest
    \/ Stop /\ UNCHANGED rest

SerialSpec == Init /\ [][SerialNext]_vars

----------------------------------------------------------------------------
(* Properties of the tunnel supervisor.                                    *)

\* Active: a handle is held and the start() call that spawned it has resolved.
SessionActive == tunnel # Null /\ outcome[tunnel].kind = "resolved"

OtherCallsNew(c) == \A d \in Calls \ {c} : pc[d] = "new"

\* This step is the entry of start() call c.
StartStep(c) == pc[c] = "new" /\ pc'[c] # "new"

\* This step is the setTimeout callback of call c.
TimerStep(c) == timer[c] = "armed" /\ timer'[c] = "fired"

\* This step is the 'close' event of the running subprocess of call c.
CloseStep(c) == proc[c] = "running" /\ proc'[c] = "closed"

\* This step is a 'data' event of call c whose chunk matched the hostname pattern.
MatchStep(c) == ~urlResolved[c] /\ urlResolved'[c]

C2_LateHostnameIsNoOp ==
    [][\A c \in Calls :
          (/\ outcome[c].kind = "Timeout"
           /\ ~isActive /\ getPublicUrl = NullUrl
           /\ MatchStep(c))
          => (~isActive' /\ getPublicUrl' = NullUrl)]_vars

\* C3: getPublicUrl() is non-null if and only if the session is Active.
C3_UrlIffActive == (getPublicUrl # NullUrl) <=> SessionActive

\* C4: a start() call made while an earlier start() has not yet settled
\* (resolving the binary, or waiting for the hostname) is rejected at once
\* with the already-running error.
C4_SecondStartRejected ==
    [][\A c \in Calls :
          (/\ StartStep(c)
           /\ \E d \in Calls \ {c} :
                 pc[d] \in {"ensuring", "acquiring"} /\ outcome[d].kind = "pending")
          => outcome'[c].kind = "AlreadyActive"]_vars

\* C5: start() called while a session is Active is rejected with the
\* already-running error before any resolution or spawn, and the held handle
\* and the stored URL are the same before and after.
C5_StartWhileActiveRejected ==
    [][\A c \in Calls :
          (StartStep(c) /\ SessionActive)
          => (/\ outcome'[c] = Rejected("AlreadyActive", <<>>)
              /\ pc'[c] = "done"
              /\ UNCHANGED <<tunnel, publicUrl, proc, killed, timer>>)]_vars

\* C5 witness: the last thing that ran is a start() call that was rejected as
\* already active, and the session it met is still Active.
C5_RejectedWhileActive ==
    /\ lastOp = "start"
    /\ SessionActive
    /\ \E c \in Calls :
          /\ outcome[c].kind = "AlreadyActive"
          /\ \A d \in Calls : d > c => pc[d] = "new"

\* C6: every subprocess that was spawned and has neither exited nor been sent
\* a termination signal is the one held in this.tunnel.
C6_OneSubprocess ==
    \A c \in Calls : (proc[c] = "running" /\ ~killed[c]) => tunnel = c

\* C7: when the timer of a still pending call fires before any chunk of its
\* running subprocess matched, that subprocess is sent a termination signal,
\* start() rejects with the timeout error and the supervisor is Idle afterwards.
C7_TimeoutKillsAndIdles ==
    [][\A c \in Calls :
          (/\ TimerStep(c)
           /\ proc[c] = "running" /\ ~urlResolved[c] /\ outcome[c].kind = "pending")
          => (/\ killed'[c]
              /\ outcome'[c].kind = "Timeout"
              /\ ~isActive' /\ getPublicUrl' = NullUrl)]_vars

C9_Stop ==
    [][lastOp' = "stop"
       => IF tunnel = Null
          THEN UNCHANGED <<tunnel, publicUrl, pc, outcome, urlResolved, timer,
                           proc, killed, exitCode>>
          ELSE /\ killed'[tunnel]
               /\ \A c \in Calls \ {tunnel} : killed'[c] = killed[c]
               /\ proc' = proc
               /\ ~isActive' /\ getPublicUrl' = NullUrl]_vars

\* C9 witness: stop() has just ended an Active session whose subprocess has
\* not exited yet.
C9_StoppedActiveSession ==
    /\ lastOp = "stop"
    /\ ~isActive /\ getPublicUrl = NullUrl
    /\ \E c \in Calls :
          /\ OtherCallsNew(c)
          /\ outcome[c].kind = "resolved"
          /\ killed[c] /\ proc[c] = "running"

\* The only call made so far was stopped while it waited for the hostname:
\* its subprocess was signalled by stop() (its own timer has not fired).
StoppedWhileWaiting(c) ==
    /\ OtherCallsNew(c)
    /\ pc[c] = "acquiring" /\ outcome[c].kind = "pending"
    /\ timer[c] = "armed" /\ killed[c]
    /\ ~isActive /\ getPublicUrl = NullUrl

\* C10: after stop() during a start() that waits for the hostname, no later
\* event of that call makes isActive() true or getPublicUrl() non-null, as
\* long as no new start() is made.
C10_NoResurrection ==
    [][\A c \in Calls :
          (StoppedWhileWaiting(c) /\ OtherCallsNew(c)')
          => (~isActive' /\ getPublicUrl' = NullUrl)]_vars

\* C11: when the subprocess of an Active session exits, the session ends
\* without stop(): after the close event isActive() is false and
\* getPublicUrl() is null.
C11_ExitEndsSession ==
    [][\A c \in Calls :
          (CloseStep(c) /\ tunnel = c /\ outcome[c].kind = "resolved")
          => (~isActive' /\ getPublicUrl' = NullUrl)]_vars

\* This step is the continuation of start() call c after a failed resolution.
EnsureFailStep(c) == pc[c] = "ensuring" /\ pc'[c] = "done"

\* C12: when binary resolution fails, start() rejects with that error, the
\* call has no subprocess and no timer, and handle and URL are unchanged
\* (both null when no other start() call has been made).
C12_ResolveFailureSpawnsNothing ==
    [][\A c \in Calls :
          EnsureFailStep(c)
          => (/\ outcome'[c] = Rejected("ResolveFailed", <<>>)
              /\ proc'[c] = "none" /\ timer'[c] = "none"
              /\ UNCHANGED <<tunnel, publicUrl, proc, timer, killed>>
              /\ OtherCallsNew(c) => (~isActive' /\ getPublicUrl' = NullUrl))]_vars

\* C12 witness: a call was rejected for a failed resolution; it has neither
\* subprocess nor timer and the supervisor is idle.
C12_ResolveFailed ==
    \E c \in Calls :
        /\ outcome[c].kind = "ResolveFailed"
        /\ proc[c] = "none" /\ timer[c] = "none"
        /\ ~isActive /\ getPublicUrl = NullUrl

\* C13: at the moment start() rejects for a resolution failure, a spawn
\* failure, a premature exit or the timeout, the handle is null.
C13_RejectLeavesHandleNull ==
    [][\A c \in Calls :
          (/\ OtherCallsNew(c)
           /\ outcome[c].kind = "pending"
           /\ outcome'[c].kind \in {"ResolveFailed", "SpawnError", "Exit", "Timeout"})
          => ~isActive']_vars

(***************************************************************************)
(* The dispatcher's lifecycle (ServerManager.start / stop / isRunning).    *)
(* start() and stop() are async functions: a throw or a return before the  *)
(* inner promise settles the returned promise at the call.  The 'listening'*)
(* callback, the 'error' event and the 'close' callback of an http.Server  *)
(* run on later turns of the event loop.                                   *)
(***************************************************************************)

\* isRunning().
isRunning == server # Null

\* The http.Server of start() call c accepts connections and hands their
\* requests to _handleRequest.
Dispatching(c) == lsn[c].st = "listening"

\* The errors listen() reports: the port is taken, or any other bind error.
ListenErrors == {"EADDRINUSE", "EACCES"}

\* start() calls are made one after another.
IsNextSrvStart(c) == IF c = 1 THEN TRUE ELSE srvStart[c - 1] # "none"

\* stop() calls are made one after another.
IsNextSrvStop(k) == IF k = 1 THEN TRUE ELSE srvStop[k - 1].kind # "none"

\* start() without the test of this.server.
SrvStartUnguarded(c) ==
    /\ srvStart[c] = "none"
    /\ IsNextSrvStart(c)
    /\ server' = c
    /\ srvStart' = [srvStart EXCEPT ![c] = "pending"]
    /\ \E bound \in BOOLEAN : \E err \in ListenErrors :
           lsn' = [lsn EXCEPT ![c] =
                      IF bound
                      THEN [st |-> "binding", closing |-> FALSE, err |-> "none"]
                      ELSE [st |-> "failing", closing |-> FALSE, err |-> err]]
    /\ UNCHANGED <<srvStop, routes, regs, resp>>
    /\ UNCHANGED vars

\* start(): throws when this.server is set; otherwise creates the http.Server,
\* assigns it to this.server and asks it to listen.  The bind succeeds or
\* fails; either way the outcome is delivered by a later event.
SrvStart(c) ==
    /\ srvStart[c] = "none"
    /\ IsNextSrvStart(c)
    /\ IF server # Null
       THEN /\ srvStart' = [srvStart EXCEPT ![c] = "AlreadyRunning"]
            /\ UNCHANGED <<server, lsn>>
       ELSE /\ server' = c
            /\ srvStart' = [srvStart EXCEPT ![c] = "pending"]
            /\ \E bound \in BOOLEAN : \E err \in ListenErrors :
                   lsn' = [lsn EXCEPT ![c] =
                              IF bound
                              THEN [st |-> "binding", closing |-> FALSE, err |-> "none"]
                              ELSE [st |-> "failing", closing |-> FALSE, err |-> err]]
    /\ UNCHANGED <<srvStop, routes, regs, resp>>
    /\ UNCHANGED vars

\* The callback given to listen(): resolve().
SrvListening(c) ==
    /\ lsn[c].st = "binding"
    /\ lsn' = [lsn EXCEPT ![c].st = "listening"]
    /\ srvStart' = [srvStart EXCEPT ![c] = IF @ = "pending" THEN "resolved" ELSE @]
    /\ UNCHANGED <<server, srvStop, routes, regs, resp>>
    /\ UNCHANGED vars

\* The 'error' handler: reject; this.server is not touched.
SrvError(c) ==
    /\ lsn[c].st = "failing"
    /\ lsn' = [lsn EXCEPT ![c].st = "failed"]
    /\ srvStart' = [srvStart EXCEPT ![c] =
                       IF @ # "pending" THEN @
                       ELSE IF lsn[c].err = "EADDRINUSE" THEN "PortInUse"
                       ELSE "ListenError"]
    /\ UNCHANGED <<server, srvStop, routes, regs, resp>>
    /\ UNCHANGED vars

\* stop() that clears this.server when it calls close(), before the
\* completion callback runs.
SrvStopClearsFirst(k) ==
    /\ srvStop[k].kind = "none"
    /\ IsNextSrvStop(k)
    /\ IF server = Null
       THEN /\ srvStop' = [srvStop EXCEPT ![k] = [kind |-> "resolved", on |-> Null]]
            /\ UNCHANGED <<lsn, server>>
       ELSE /\ srvStop' = [srvStop EXCEPT ![k] = [kind |-> "pending", on |-> server]]
            /\ lsn' = [lsn EXCEPT ![server].closing = TRUE]
            /\ server' = Null
    /\ UNCHANGED <<srvStart, routes, regs, resp>>
    /\ UNCHANGED vars

\* stop(): returns at once when this.server is null; otherwise calls close()
\* on the held http.Server and stays pending until its callback runs.
SrvStop(k) ==
    /\ srvStop[k].kind = "none"
    /\ IsNextSrvStop(k)
    /\ IF server = Null
       THEN /\ srvStop' = [srvStop EXCEPT ![k] = [kind |-> "resolved", on |-> Null]]
            /\ UNCHANGED lsn
       ELSE /\ srvStop' = [srvStop EXCEPT ![k] = [kind |-> "pending", on |-> server]]
            /\ lsn' = [lsn EXCEPT ![server].closing = TRUE]
    /\ UNCHANGED <<server, srvStart, routes, regs, resp>>
    /\ UNCHANGED vars

\* The 'close' event of the http.Server of call c, with callbacks that
\* resolve and leave this.server as it is.
SrvClosedKeepServer(c) ==
    /\ lsn[c].closing
    /\ lsn[c].st \in {"binding", "listening", "failed"}
    /\ lsn' = [lsn EXCEPT ![c] = [st |-> "closed", closing |-> FALSE, err |-> @.err]]
    /\ srvStop' = [k \in StopCalls |->
                      IF srvStop[k].kind = "pending" /\ srvStop[k].on = c
                      THEN [srvStop[k] EXCEPT !.kind = "resolved"]
                      ELSE srvStop[k]]
    /\ UNCHANGED <<server, srvStart, routes, regs, resp>>
    /\ UNCHANGED vars

\* The 'close' event of the http.Server of call c: every callback given to
\* close() runs: this.server = null; resolve().  A pending 'error' is
\* delivered first; a 'listening' that is still due is dropped.
SrvClosed(c) ==
    /\ lsn[c].closing
    /\ lsn[c].st \in {"binding", "listening", "failed"}
    /\ lsn' = [lsn EXCEPT ![c] = [st |-> "closed", closing |-> FALSE, err |-> @.err]]
    /\ srvStop' = [k \in StopCalls |->
                      IF srvStop[k].kind = "pending" /\ srvStop[k].on = c
                      THEN [srvStop[k] EXCEPT !.kind = "resolved"]
                      ELSE srvStop[k]]
    /\ server' = IF \E k \in StopCalls : srvStop[k].kind = "pending" /\ srvStop[k].on = c
                 THEN Null ELSE server
    /\ UNCHANGED <<srvStart, routes, regs, resp>>
    /\ UNCHANGED vars

ServerNext ==
    \/ \E c \in StartCalls : SrvStart(c) /\ UNCHANGED rest
    \/ \E c \in StartCalls : SrvListening(c) /\ UNCHANGED rest
    \/ \E c \in StartCalls : SrvError(c) /\ UNCHANGED rest
    \/ \E k \in StopCalls : SrvStop(k) /\ UNCHANGED rest
    \/ \E c \in StartCalls : SrvClosed(c) /\ UNCHANGED rest

ServerSpec == Init /\ [][ServerNext]_allvars

(***************************************************************************)
(* Properties of the dispatcher's lifecycle.                               *)
(***************************************************************************)

\* This step is start() call c / stop() call k being made.
SrvStartStep(c) == srvStart[c] = "none" /\ srvStart'[c] # "none"
SrvStopStep(k) == srvStop[k].kind = "none" /\ srvStop'[k].kind # "none"

\* An earlier start() succeeded and no stop() has completed since: the
\* http.Server it created is still the one held.
StartedNotStopped == server # Null /\ srvStart[server] = "resolved"

\* C14: start() called after a start() that succeeded and before any stop()
\* completed rejects as already running, creates no http.Server of its own,
\* and leaves the held http.Server, with the state it is in, untouched.
C14_SecondStartRejected ==
    [][\A c \in StartCalls :
          (SrvStartStep(c) /\ StartedNotStopped)
          => (/\ srvStart'[c] = "AlreadyRunning"
              /\ lsn'[c].st = "none"
              /\ UNCHANGED <<server, lsn, routes>>
              /\ Dispatching(server) => Dispatching(server)')]_allvars

\* C14 witness: a start() was rejected as already running while the first
\* listener is held, listening, and not being closed.
C14_RejectedWhileListening ==
    \E c \in StartCalls :
        /\ srvStart[c] = "AlreadyRunning"
        /\ lsn[c].st = "none"
        /\ StartedNotStopped
        /\ Dispatching(server) /\ ~lsn[server].closing

\* C15: stop() on a dispatcher that is not running resolves at once and
\* changes nothing; a stop() made while running resolves only from the close
\* callback, and whenever a stop() resolves the dispatcher is not running.
C15_StopIdempotent ==
    [][\A k \in StopCalls :
          /\ (SrvStopStep(k) /\ ~isRunning)
             => (/\ srvStop'[k].kind = "resolved"
                 /\ UNCHANGED <<server, lsn, srvStart, routes>>)
          /\ (SrvStopStep(k) /\ isRunning)
             => (srvStop'[k] = [kind |-> "pending", on |-> server] /\ isRunning')
          /\ (srvStop[k].kind # "resolved" /\ srvStop'[k].kind = "resolved")
             => ~isRunning']_allvars

\* C15 witness: after a successful start(), every stop() call has resolved,
\* one of them through the close callback, and isRunning() is false.
C15_AllStopsResolved ==
    /\ \E c \in StartCalls : srvStart[c] = "resolved" /\ lsn[c].st = "closed"
    /\ \A k \in StopCalls : srvStop[k].kind = "resolved"
    /\ \E k \in StopCalls : srvStop[k].on # Null
    /\ ~isRunning

\* The promise of start() call c is rejected for a bind error at this step.
BindRejects(c) ==
    /\ srvStart[c] = "pending"
    /\ srvStart'[c] \in {"PortInUse", "ListenError"}

\* C35: when start() rejects because the port could not be bound, the
\* dispatcher is not left running: isRunning() is false afterwards.
C35_BindFailureLeavesNotRunning ==
    [][\A c \in StartCalls : BindRejects(c) => ~isRunning']_allvars

\* Holds: a start() made after a bind failure, with no stop() in between, is
\* rejected as already running (the failed http.Server is still held).
StartAfterBindFailureRejected ==
    [][\A c, d \in StartCalls :
          (/\ SrvStartStep(d)
           /\ srvStart[c] \in {"PortInUse", "ListenError"}
           /\ server = c)
          => srvStart'[d] = "AlreadyRunning"]_allvars

\* Some stop() is pending.
StopPending == \E k \in StopCalls : srvStop[k].kind = "pending"

\* C37: while a stop() is pending isRunning() is true, the held http.Server
\* is the one being closed, and a start() is rejected as already running;
\* this.server is cleared only by the close event of the http.Server that
\* is held, so the callback of no stop() clears an http.Server created by a
\* later start().
C37_PendingStopKeepsRunning ==
    [][/\ \A k \in StopCalls :
              srvStop[k].kind = "pending"
              => (isRunning /\ server = srvStop[k].on)
       /\ \A k \in StopCalls :
              srvStop'[k].kind = "pending"
              => (isRunning' /\ server' = srvStop'[k].on)
       /\ \A c \in StartCalls :
              (SrvStartStep(c) /\ StopPending)
              => (srvStart'[c] = "AlreadyRunning" /\ UNCHANGED <<server, lsn>>)
       /\ (server # Null /\ server' # server)
              => (/\ server' = Null
                  /\ lsn[server].closing
                  /\ lsn'[server].st = "closed"
                  /\ \A k \in StopCalls :
                         (srvStop[k].kind = "pending"
                             /\ srvStop'[k].kind = "resolved")
                         => srvStop[k].on = server)]_allvars

\* C37 witness: overlapping stop() calls were made on the first http.Server,
\* all of them have resolved, and the http.Server of a later start() is held
\* and listening.
C37_RestartedAfterOverlappingStops ==
    /\ \A k \in StopCalls : srvStop[k] = [kind |-> "resolved", on |-> 1]
    /\ \E c \in StartCalls :
           /\ c > 1
           /\ server = c
           /\ Dispatching(c)

(***************************************************************************)
(* Routing.  A path (a route pattern, a request target, a URL pathname) is *)
(* the sequence of its segments, the text between the slashes after the    *)
(* leading one: "/pages/index" has two segments, "/" has one empty         *)
(* segment, "//" has two empty segments.  A segment is a sequence of       *)
(* tokens: ":", "*" and "." stand for themselves, "a" and "b" are one word *)
(* character each, any other token is a run of word characters.  Route     *)
(* patterns carry a parameter as a whole segment (":" followed by a word), *)
(* as every pattern the plugin registers does; query strings and dot       *)
(* segments are not part of the targets.                                   *)
(***************************************************************************)

SegPages == <<"pages">>
SegIndex == <<"index">>
SegImages == <<"images">>
SegA == <<"a">>
SegB == <<"b">>
SegSlug == <<":", "slug">>
SegStar == <<"*">>
SegEmpty == <<>>

\* The route patterns /pages/:slug, /pages/index and /images/*.
PagesSlug == <<SegPages, SegSlug>>
PagesIndex == <<SegPages, SegIndex>>
ImagesStar == <<SegImages, SegStar>>

Methods == {"GET", "POST", "OPTIONS"}

\* The request targets /pages/index, /images/a/b and //.
Targets ==
    { <<SegPages, SegIndex>>, <<SegImages, SegA, SegB>>, <<SegEmpty, SegEmpty>> }

Requests == [method : Methods, target : Targets]

\* The registerRoute calls that are made: (method, pattern, handler).
Registrations ==
    { [method |-> "GET", path |-> PagesSlug, fn |-> "h1"],
      [method |-> "GET", path |-> PagesSlug, fn |-> "h2"],
      [method |-> "GET", path |-> PagesIndex, fn |-> "h2"],
      [method |-> "POST", path |-> PagesIndex, fn |-> "h1"],
      [method |-> "OPTIONS", path |-> PagesIndex, fn |-> "h1"],
      [method |-> "GET", path |-> ImagesStar, fn |-> "h2"] }

\* What a handler does with res: sendJSON with a status, sendHTML, or its own
\* writeHead/end.
HandlerReplies ==
    { [via |-> "sendJSON", status |-> 404], [via |-> "sendHTML", status |-> 200],
      [via |-> "writeHead", status |-> 200] }

\* A segment the regex /:(\w+)/ matches: ":" followed by a word.
IsParam(seg) == Len(seg) = 2 /\ seg[1] = ":" /\ seg[2] \notin {":", "*"}

\* route.endsWith('/*').
EndsWithStar(route) == Len(route) >= 1 /\ route[Len(route)] = SegStar

\* _routeToRegex(route): for a route ending in /*, ^base/.*$ with the base
\* taken literally; otherwise the route with every :name replaced by ([^/]+),
\* anchored at both ends.
RouteToRegex(route) ==
    IF EndsWithStar(route)
    THEN [wild |-> TRUE, segs |-> SubSeq(route, 1, Len(route) - 1)]
    ELSE [wild |-> FALSE, segs |-> route]

\* The capture groups of a match of the anchored regex, from segment i on:
\* one group per ([^/]+), in order.
RECURSIVE Groups(_, _, _)
Groups(segs, pathname, i) ==
    IF i > Len(segs) THEN <<>>
    ELSE IF IsParam(segs[i])
         THEN <<pathname[i]>> \o Groups(segs, pathname, i + 1)
         ELSE Groups(segs, pathname, i + 1)

\* The tokens that are one character.
OneChar == {"a", "b", ".", ":", "*"}

\* The text of a route segment as the regex reads it: _routeToRegex escapes
\* only the slashes, so "." matches any one character and every other token
\* of the patterns used here matches itself.
LiteralMatch(rseg, pseg) ==
    /\ Len(pseg) = Len(rseg)
    /\ \A k \in 1..Len(rseg) :
           IF rseg[k] = "." THEN pseg[k] \in OneChar ELSE pseg[k] = rseg[k]

\* pathname.match(regex): whether it matches, and its capture groups.
RegexMatch(regex, pathname) ==
    IF regex.wild
    THEN [ok |-> /\ Len(pathname) > Len(regex.segs)
                 /\ \A i \in 1..Len(regex.segs) :
                        LiteralMatch(regex.segs[i], pathname[i]),
          groups |-> <<>>]
    ELSE LET ok == /\ Len(pathname) = Len(regex.segs)
                   /\ \A i \in 1..Len(regex.segs) :
                          IF IsParam(regex.segs[i])
                          THEN pathname[i] # SegEmpty
                          ELSE LiteralMatch(regex.segs[i], pathname[i])
         IN  [ok |-> ok,
              groups |-> IF ok THEN Groups(regex.segs, pathname, 1) ELSE <<>>]

\* new URL(req.url, 'http://' + host) with a valid Host header: a target that
\* begins with "//" is scheme-relative, its first segment after the slashes
\* is the host and the rest the pathname; an empty host makes the constructor
\* throw.  Any other target is the pathname.
ParseUrl(target) ==
    IF Len(target) >= 2 /\ target[1] = SegEmpty
    THEN IF target[2] = SegEmpty
         THEN [ok |-> FALSE, pathname |-> <<>>]
         ELSE [ok |-> TRUE,
               pathname |-> IF Len(target) = 2 THEN <<SegEmpty>>
                            ELSE SubSeq(target, 3, Len(target))]
    ELSE [ok |-> TRUE, pathname |-> target]

\* _findRoute returned null.
NoHandler == [fn |-> "none", route |-> <<>>]

\* The loop of _findRoute over this.routes.entries(), from entry i on.
RECURSIVE FindFrom(_, _, _)
FindFrom(i, method, pathname) ==
    IF i > Len(routes) THEN NoHandler
    ELSE IF routes[i].method # method THEN FindFrom(i + 1, method, pathname)
    ELSE IF RegexMatch(RouteToRegex(routes[i].path), pathname).ok
         THEN [fn |-> routes[i].fn, route |-> routes[i].path]
         ELSE FindFrom(i + 1, method, pathname)

\* _findRoute(method, pathname).
FindRoute(method, pathname) == FindFrom(1, method, pathname)

\* The names route.matchAll(/:(\w+)/g) yields, from segment i on.
RECURSIVE ParamNames(_, _)
ParamNames(route, i) ==
    IF i > Len(route) THEN <<>>
    ELSE IF IsParam(route[i])
         THEN <<route[i][2]>> \o ParamNames(route, i + 1)
         ELSE ParamNames(route, i + 1)

\* match[i + 1] when the regex has no such group.
Undefined == <<>>

\* _extractParams(method, pathname, route): the object that binds the i-th
\* name to the i-th capture group (a later binding of a name replaces an
\* earlier one).
ExtractParams(method, pathname, route) ==
    LET names == ParamNames(route, 1)
        m == RegexMatch(RouteToRegex(route), pathname)
        Last(n) == CHOOSE i \in 1..Len(names) :
                       names[i] = n /\ \A j \in 1..Len(names) : names[j] = n => j <= i
    IN  IF ~m.ok THEN <<>>
        ELSE [n \in {names[i] : i \in 1..Len(names)} |->
                 IF Last(n) <= Len(m.groups) THEN m.groups[Last(n)] ELSE Undefined]

\* The five headers _setCORSHeaders sets.
CORSHeaders ==
    ("Access-Control-Allow-Origin" :> "*")
    @@ ("Access-Control-Allow-Methods" :> "GET, POST, OPTIONS")
    @@ ("Access-Control-Allow-Headers" :> "Content-Type, Access-Control-Request-Private-Network")
    @@ ("Access-Control-Max-Age" :> "86400")
    @@ ("Access-Control-Allow-Private-Network" :> "true")

\* _setCORSHeaders(res): res.setHeader for each of the five.
SetCORSHeaders(headers) == CORSHeaders @@ headers

\* A writeHead that sends only the headers it is given.
WriteHeadReplace(headers, given) == given

\* res.writeHead(status, given): the headers given are merged over the ones
\* set before with setHeader.
WriteHead(headers, given) == given @@ headers

\* The bodies res.end() is given.
EmptyBody == [type |-> "empty", obj |-> <<>>]
Json(obj) == [type |-> "json", obj |-> obj]
Html == [type |-> "html", obj |-> <<>>]
Raw == [type |-> "raw", obj |-> <<>>]

\* No request is a preflight.
NeverPreflight(req) == FALSE

\* req.method === 'OPTIONS'.
IsPreflight(req) == req.method = "OPTIONS"

\* _sendError(res, statusCode, message).
SendError(headers, statusCode, message) ==
    [status |-> statusCode,
     headers |-> WriteHead(headers, "Content-Type" :> "application/json"),
     body |-> Json("error" :> message)]

\* What handler fn writes to res: sendJSON(res, data, status), sendHTML(res,
\* html) or res.writeHead(200, {...}); res.end(buffer).
HandlerWrites(headers, fn, reply) ==
    IF reply.via = "sendJSON"
    THEN [status |-> reply.status,
          headers |-> WriteHead(headers, "Content-Type" :> "application/json"),
          body |-> Json("data" :> fn)]
    ELSE IF reply.via = "sendHTML"
    THEN [status |-> reply.status,
          headers |-> WriteHead(headers, "Content-Type" :> "text/html; charset=utf-8"),
          body |-> Html]
    ELSE [status |-> reply.status,
          headers |-> WriteHead(headers, ("Content-Type" :> "image/png")
                                         @@ ("Content-Length" :> "n")),
          body |-> Raw]

\* registerRoute(method, path, handler): this.routes.set(method + ':' + path,
\* handler).  Map.set on a key that is present replaces its value and keeps
\* its place in the iteration order.
RegisterRoute(r) ==
    /\ Len(regs) < MaxRoutes
    /\ regs' = Append(regs, r)
    /\ routes' =
          IF \E i \in 1..Len(routes) :
                 routes[i].method = r.method /\ routes[i].path = r.path
          THEN [i \in 1..Len(routes) |->
                   IF routes[i].method = r.method /\ routes[i].path = r.path
                   THEN r ELSE routes[i]]
          ELSE Append(routes, r)
    /\ UNCHANGED <<server, lsn, srvStart, srvStop, resp>>
    /\ UNCHANGED vars

\* _handleRequest(req, res) on a listening http.Server, with what the handler
\* it calls writes.  The exchange records the registerRoute calls made so far.
HandleRequest(req) ==
    /\ \E c \in StartCalls : Dispatching(c)
    /\ LET set == SetCORSHeaders(NoHeaders)
           seen == [req |-> req, regs |-> regs]
       IN  IF IsPreflight(req)
           THEN resp' = seen @@
                        [status |-> 200, body |-> EmptyBody,
                         headers |-> WriteHead(set, NoHeaders),
                         invoked |-> <<>>, route |-> <<>>, params |-> <<>>,
                         threw |-> FALSE]
           ELSE LET url == ParseUrl(req.target)
                IN  IF ~url.ok
                    THEN resp' = seen @@
                                 [status |-> NoStatus, body |-> NoBody,
                                  headers |-> set,
                                  invoked |-> <<>>, route |-> <<>>,
                                  params |-> <<>>, threw |-> TRUE]
                    ELSE LET handler == FindRoute(req.method, url.pathname)
                         IN  IF handler # NoHandler
                             THEN \E reply \in HandlerReplies :
                                    resp' = seen
                                        @@ HandlerWrites(set, handler.fn, reply)
                                        @@ [invoked |-> <<handler.fn>>,
                                            route |-> handler.route,
                                            params |-> ExtractParams(req.method,
                                                          url.pathname, handler.route),
                                            threw |-> FALSE]
                             ELSE resp' = seen
                                        @@ SendError(set, 404, "Route not found")
                                        @@ [invoked |-> <<>>, route |-> <<>>,
                                            params |-> <<>>,
                                            threw |-> FALSE]
    /\ UNCHANGED <<server, lsn, srvStart, srvStop, routes, regs>>
    /\ UNCHANGED vars

\* A dispatcher whose start() has resolved, before any route is registered
\* (PluginController.enableServer registers the routes after start()).
DispatchInit ==
    /\ TunnelInit
    /\ ProvisionIdle
    /\ ControllerIdle
    /\ StreamsIdle
    /\ server = 1
    /\ lsn = [c \in StartCalls |->
                 [st |-> IF c = 1 THEN "listening" ELSE "none",
                  closing |-> FALSE, err |-> "none"]]
    /\ srvStart = [c \in StartCalls |-> IF c = 1 THEN "resolved" ELSE "none"]
    /\ srvStop = [k \in StopCalls |-> [kind |-> "none", on |-> Null]]
    /\ routes = <<>>
    /\ regs = <<>>
    /\ resp = NoExchange

DispatchNext ==
    \/ \E r \in Registrations : RegisterRoute(r) /\ UNCHANGED rest
    \/ \E req \in Requests : HandleRequest(req) /\ UNCHANGED rest

DispatchSpec == DispatchInit /\ [][DispatchNext]_allvars

\* Routing with patterns of every shape _routeToRegex distinguishes: one and
\* two named segments, a named segment before the wildcard, a wildcard after
\* a literal prefix, and a prefix holding a character the regex reads as a
\* metacharacter: /pages/:slug, /pages/:slug/:id, /pages/:slug/*, /images/*
\* and /a.b/*.
SegId == <<":", "id">>
SegDotted == <<"a", ".", "b">>
SegAbb == <<"a", "b", "b">>

PagesSlugId == <<SegPages, SegSlug, SegId>>
PagesSlugStar == <<SegPages, SegSlug, SegStar>>
DottedStar == <<SegDotted, SegStar>>

PatternRegistrations ==
    { [method |-> "GET", path |-> p, fn |-> "h1"] :
        p \in {PagesSlug, PagesSlugId, PagesSlugStar, ImagesStar, DottedStar} }

\* GET requests for /pages/a, /pages/a/b, /pages/ (an empty last segment),
\* /images/a/b, /images, /a.b/a and /abb/a.
PatternRequests ==
    { [method |-> "GET", target |-> t] :
        t \in { <<SegPages, SegA>>, <<SegPages, SegA, SegB>>, <<SegPages, SegEmpty>>,
                <<SegImages, SegA, SegB>>, <<SegImages>>,
                <<SegDotted, SegA>>, <<SegAbb, SegA>> } }

PatternNext ==
    \/ \E r \in PatternRegistrations : RegisterRoute(r) /\ UNCHANGED rest
    \/ \E req \in PatternRequests : HandleRequest(req) /\ UNCHANGED rest

PatternSpec == DispatchInit /\ [][PatternNext]_allvars

(***************************************************************************)
(* Properties of the routing.  They are stated on the exchange: the        *)
(* request, the registerRoute calls made before it, and what came back.    *)
(***************************************************************************)

\* A request has been handled.
Handled == resp.req # NoRequest

\* The registerRoute calls, among the sequence made, whose method is the
\* request's and whose pattern matches the request's path.
Candidates(made, req) ==
    { i \in 1..Len(made) :
        /\ made[i].method = req.method
        /\ ParseUrl(req.target).ok
        /\ RegexMatch(RouteToRegex(made[i].path), ParseUrl(req.target).pathname).ok }

Earliest(S) == CHOOSE i \in S : \A j \in S : i <= j

\* The same method and pattern were registered twice.
SameKey(r1, r2) == r1.method = r2.method /\ r1.path = r2.path

\* C16: when a method and pattern are registered twice with different
\* handlers, a later request matching the pattern is dispatched to the
\* handler registered first.
C16_FirstRegisteredWins ==
    (Handled /\ ~IsPreflight(resp.req))
    => LET made == resp.regs
           M == Candidates(made, resp.req)
       IN  (/\ M # {}
            /\ \E j \in M : /\ j > Earliest(M)
                            /\ SameKey(made[j], made[Earliest(M)])
                            /\ made[j].fn # made[Earliest(M)].fn)
           => resp.invoked = <<made[Earliest(M)].fn>>

\* C17: the handler invoked is that of the earliest registration whose
\* method equals the request's and whose pattern matches its path; without
\* such a registration no handler is invoked.
C17_EarliestMatchWins ==
    (Handled /\ ~IsPreflight(resp.req) /\ ParseUrl(resp.req.target).ok)
    => LET made == resp.regs
           M == Candidates(made, resp.req)
       IN  IF M # {} THEN resp.invoked = <<made[Earliest(M)].fn>>
           ELSE resp.invoked = <<>>

\* The statement of C17 for requests before which no method and pattern had
\* been registered twice.
EarliestMatchWinsForDistinctKeys ==
    (/\ Handled /\ ~IsPreflight(resp.req) /\ ParseUrl(resp.req.target).ok
     /\ \A i, j \in 1..Len(resp.regs) :
            SameKey(resp.regs[i], resp.regs[j]) => i = j)
    => LET made == resp.regs
           M == Candidates(made, resp.req)
       IN  IF M # {} THEN resp.invoked = <<made[Earliest(M)].fn>>
           ELSE resp.invoked = <<>>

\* C18: an OPTIONS request, whatever is registered, is answered with status
\* 200 and an empty body, and no handler is invoked.
C18_PreflightAnswered ==
    (Handled /\ resp.req.method = "OPTIONS")
    => (/\ resp.status = 200
        /\ resp.body = EmptyBody
        /\ resp.invoked = <<>>
        /\ ~resp.threw)

\* C18 witness: an OPTIONS request was answered while a route with method
\* OPTIONS matching its path was registered.
C18_PreflightWithOptionsRoute ==
    /\ resp.req.method = "OPTIONS"
    /\ resp.status = 200
    /\ \E i \in 1..Len(resp.regs) :
           /\ resp.regs[i].method = "OPTIONS"
           /\ RegexMatch(RouteToRegex(resp.regs[i].path),
                         ParseUrl(resp.req.target).pathname).ok

\* C19: every response produced carries the five CORS headers with the
\* values _setCORSHeaders gives them.
C19_CORSOnEveryResponse ==
    /\ Cardinality(DOMAIN CORSHeaders) = 5
    /\ resp.status # NoStatus
       => \A n \in DOMAIN CORSHeaders :
              n \in DOMAIN resp.headers /\ resp.headers[n] = CORSHeaders[n]

\* C19 witness: a handler wrote the response with its own writeHead, and the
\* response has the headers of that call next to the CORS headers.
C19_HandlerWroteDirectly ==
    /\ resp.invoked # <<>>
    /\ resp.body = Raw
    /\ "Content-Length" \in DOMAIN resp.headers
    /\ DOMAIN CORSHeaders \subseteq DOMAIN resp.headers

\* C20: a request other than OPTIONS that matches no registered route of its
\* method invokes no handler and is answered 404 with a JSON body
\* {"error": message}; nothing is thrown.
C20_UnmatchedGets404 ==
    (Handled /\ ~IsPreflight(resp.req) /\ Candidates(resp.regs, resp.req) = {})
    => (/\ resp.invoked = <<>>
        /\ resp.status = 404
        /\ resp.body.type = "json" /\ DOMAIN resp.body.obj = {"error"}
        /\ ~resp.threw)

\* The statement of C20 for requests whose target the URL constructor accepts.
UnmatchedParsedGets404 ==
    (/\ Handled /\ ~IsPreflight(resp.req) /\ ParseUrl(resp.req.target).ok
     /\ Candidates(resp.regs, resp.req) = {})
    => (/\ resp.invoked = <<>>
        /\ resp.status = 404
        /\ resp.body.type = "json" /\ DOMAIN resp.body.obj = {"error"}
        /\ ~resp.threw)

\* The three outcomes of a request: the preflight answer, one handler
\* invoked once, the dispatcher's own 404.
PreflightSent ==
    /\ IsPreflight(resp.req)
    /\ resp.status = 200 /\ resp.body = EmptyBody /\ resp.invoked = <<>>

HandlerInvoked == Len(resp.invoked) = 1

NotFoundSent ==
    /\ resp.invoked = <<>>
    /\ resp.status = 404
    /\ resp.body.type = "json" /\ DOMAIN resp.body.obj = {"error"}

Outcomes ==
    (IF PreflightSent THEN 1 ELSE 0) + (IF HandlerInvoked THEN 1 ELSE 0)
        + (IF NotFoundSent THEN 1 ELSE 0)

\* C36: for every request handled exactly one of the three outcomes occurs,
\* and at most one handler is invoked.
C36_ExactlyOneOutcome ==
    Handled => (Outcomes = 1 /\ Len(resp.invoked) <= 1)

\* The statement of C36 for requests that are preflights or whose target the
\* URL constructor accepts.
ParsedExactlyOneOutcome ==
    (Handled /\ (IsPreflight(resp.req) \/ ParseUrl(resp.req.target).ok))
    => (Outcomes = 1 /\ Len(resp.invoked) <= 1)

(***************************************************************************)
(* Properties of the pattern matching.                                     *)
(***************************************************************************)

\* The route has a named segment.
HasParam(route) == \E i \in 1..Len(route) : IsParam(route[i])

\* The route without its trailing wildcard.
Prefix(route) ==
    IF EndsWithStar(route) THEN SubSeq(route, 1, Len(route) - 1) ELSE route

\* What a pattern is meant to match: a named segment stands for exactly one
\* non-empty segment, any other segment for its own text, and a trailing
\* wildcard for a slash and any remainder.
ShouldMatch(route, pathname) ==
    /\ IF EndsWithStar(route) THEN Len(pathname) > Len(Prefix(route))
       ELSE Len(pathname) = Len(route)
    /\ \A i \in 1..Len(Prefix(route)) :
           IF IsParam(route[i]) THEN pathname[i] # SegEmpty
           ELSE pathname[i] = route[i]

\* The i-th name bound to the path segment standing where the i-th named
\* segment stands.
ExpectedParams(route, pathname) ==
    [n \in {route[i][2] : i \in {j \in 1..Len(route) : IsParam(route[j])}} |->
        pathname[CHOOSE i \in 1..Len(route) : IsParam(route[i]) /\ route[i][2] = n]]

\* The registrations of the exchange that the request is meant to reach.
Meant(made, req, pathname) ==
    { i \in 1..Len(made) :
        made[i].method = req.method /\ ShouldMatch(made[i].path, pathname) }

\* C21: a pattern with named segments, with or without a trailing wildcard,
\* is matched by the paths that have one non-empty segment for each named
\* segment, and its handler receives the i-th name bound to the i-th such
\* segment.
C21_NamedSegmentsBound ==
    (Handled /\ ~IsPreflight(resp.req) /\ ParseUrl(resp.req.target).ok)
    => LET pathname == ParseUrl(resp.req.target).pathname
       IN  /\ (\E i \in Meant(resp.regs, resp.req, pathname) :
                   HasParam(resp.regs[i].path))
              => resp.invoked # <<>>
           /\ (resp.invoked # <<>> /\ HasParam(resp.route))
              => (/\ ShouldMatch(resp.route, pathname)
                  /\ resp.params = ExpectedParams(resp.route, pathname))

\* The statement of C21 for the patterns without a trailing wildcard.
NamedSegmentsBoundWithoutWildcard ==
    (Handled /\ ~IsPreflight(resp.req) /\ ParseUrl(resp.req.target).ok)
    => LET pathname == ParseUrl(resp.req.target).pathname
       IN  /\ (\E i \in Meant(resp.regs, resp.req, pathname) :
                   HasParam(resp.regs[i].path) /\ ~EndsWithStar(resp.regs[i].path))
              => resp.invoked # <<>>
           /\ (resp.invoked # <<>> /\ HasParam(resp.route)
                                  /\ ~EndsWithStar(resp.route))
              => (/\ ShouldMatch(resp.route, pathname)
                  /\ resp.params = ExpectedParams(resp.route, pathname))

\* The path begins with the text of the pattern's prefix, followed by a slash.
HasPrefix(route, pathname) ==
    /\ Len(pathname) > Len(Prefix(route))
    /\ \A i \in 1..Len(Prefix(route)) : pathname[i] = route[i]

\* C22: a pattern ending in /* is matched by every path made of its prefix, a
\* slash and any remainder, and by no path that lacks the prefix.
C22_WildcardMatchesPrefix ==
    (Handled /\ ~IsPreflight(resp.req) /\ ParseUrl(resp.req.target).ok)
    => LET pathname == ParseUrl(resp.req.target).pathname
       IN  /\ (\E i \in 1..Len(resp.regs) :
                   /\ resp.regs[i].method = resp.req.method
                   /\ EndsWithStar(resp.regs[i].path)
                   /\ HasPrefix(resp.regs[i].path, pathname))
              => resp.invoked # <<>>
           /\ (resp.invoked # <<>> /\ EndsWithStar(resp.route))
              => HasPrefix(resp.route, pathname)

\* The statement of C22 for the patterns whose prefix has no character that
\* the regex reads as a metacharacter.
WildcardMatchesWordPrefix ==
    (Handled /\ ~IsPreflight(resp.req) /\ ParseUrl(resp.req.target).ok)
    => LET pathname == ParseUrl(resp.req.target).pathname
       IN  /\ (\E i \in 1..Len(resp.regs) :
                   /\ resp.regs[i].method = resp.req.method
                   /\ EndsWithStar(resp.regs[i].path)
                   /\ HasPrefix(resp.regs[i].path, pathname))
              => resp.invoked # <<>>
           /\ (resp.invoked # <<>> /\ EndsWithStar(resp.route)
                                  /\ resp.route # DottedStar)
              => HasPrefix(resp.route, pathname)

(***************************************************************************)
(* Properties of the hostname scan and of the callbacks of earlier calls.  *)
(***************************************************************************)

\* s is a hostname as the pattern describes it: the scheme, one or more
\* label characters, the suffix, in either case.
IsUrl(s) ==
    /\ Len(s) >= 3
    /\ IsScheme(s[1])
    /\ IsSuffix(s[Len(s)])
    /\ \A k \in 2..(Len(s) - 1) : IsLabel(s[k])

\* The places at which a hostname begins in the text.
UrlStarts(text) ==
    { i \in 1..Len(text) : \E j \in i..Len(text) : IsUrl(SubSeq(text, i, j)) }

\* The first substring of the text that is a hostname.
FirstUrl(text) ==
    LET i == CHOOSE i \in UrlStarts(text) : \A k \in UrlStarts(text) : i <= k
        j == CHOOSE j \in i..Len(text) : IsUrl(SubSeq(text, i, j))
    IN  SubSeq(text, i, j)

\* The text has no upper-case character.
IsLowerCase(s) == \A k \in 1..Len(s) : s[k] \notin {"Q", "A", "T"}

\* The hostname a chunk is captured as.
Captured(text) == ToLowerCase(FirstUrl(text))

\* At the first matching chunk of a call the stored URL becomes the first
\* hostname of that chunk in lower case, and a pending start() resolves
\* with it.
CapturedAtMatch ==
    \A c \in Calls :
        MatchStep(c)
        => /\ \E text \in ScanTexts :
                  /\ UrlStarts(text) # {}
                  /\ getPublicUrl' = Captured(text)
                  /\ Captured(text) # FirstUrl(text) => ~IsLowerCase(FirstUrl(text))
           /\ IsLowerCase(getPublicUrl')
           /\ outcome[c].kind = "pending" => outcome'[c] = Resolved(getPublicUrl')

\* C28: start() resolves with the first hostname of the first matching chunk,
\* in lower case; getPublicUrl() returns that URL, and no later match
\* replaces it while the session lasts.
C28_FirstMatchKept ==
    [][/\ CapturedAtMatch
       /\ \A c \in Calls :
              (outcome'[c].kind = "resolved" /\ tunnel' = c)
              => getPublicUrl' = outcome'[c].val]_vars

\* The statement of C28 at the capture alone.
FirstMatchLowerCased == [][CapturedAtMatch]_vars

\* This step is a callback of call c: its timer, the close event of its
\* subprocess, or a chunk of its output in which a hostname is found.
CallbackStep(c) == TimerStep(c) \/ CloseStep(c) \/ MatchStep(c)

\* C29: a callback of an earlier call leaves the session of a later call
\* alone: it does not kill its subprocess and does not change the handle or
\* the public URL.  (Under SerialSpec the later call was made after the
\* earlier one had settled or been stopped.)
C29_EarlierCallbacksInert ==
    [][\A c, d \in Calls :
          (/\ c < d /\ tunnel = d
           /\ CallbackStep(c))
          => (/\ tunnel' = d
              /\ killed'[d] = killed[d]
              /\ getPublicUrl' = getPublicUrl)]_vars

(***************************************************************************)
(* Binary provisioning: _ensureCloudflared and _downloadCloudflared.  A     *)
(* resolution runs synchronously up to the https.get of its download; the   *)
(* response, the end of the file stream and a stream error are later        *)
(* events.  The probes read the machine (host) and the managed file.        *)
(***************************************************************************)

\* (platform(), arch()) pairs: two of the mapping table, two for which no
\* asset exists on an operating system of the table, and one of another
\* operating system.
Platforms ==
    { <<"linux", "x64">>, <<"darwin", "arm64">>, <<"linux", "arm">>,
      <<"win32", "arm64">>, <<"freebsd", "x64">> }

Hosts ==
    { [os |-> p[1], cpu |-> p[2], pluginDir |-> d, which |-> w, wk |-> k] :
        p \in Platforms, d \in BOOLEAN, w \in {"none", "works", "broken"},
        k \in [1..2 -> BOOLEAN] }

\* _getDownloadInfo(): the release asset for platform() and arch(), or null.
NoInfo == [filename |-> "null", needsExtraction |-> FALSE]

GetDownloadInfo(os, cpu) ==
    IF os = "darwin"
    THEN [filename |-> IF cpu = "arm64" THEN "cloudflared-darwin-arm64.tgz"
                       ELSE "cloudflared-darwin-amd64.tgz",
          needsExtraction |-> TRUE]
    ELSE IF os = "win32"
    THEN [filename |-> IF cpu = "x64" THEN "cloudflared-windows-amd64.exe"
                       ELSE "cloudflared-windows-386.exe",
          needsExtraction |-> FALSE]
    ELSE IF os = "linux"
    THEN [filename |-> IF cpu = "arm64" THEN "cloudflared-linux-arm64"
                       ELSE IF cpu = "x64" THEN "cloudflared-linux-amd64"
                       ELSE "cloudflared-linux-386",
          needsExtraction |-> FALSE]
    ELSE NoInfo

\* _getLocalBinaryPath().
GetLocalBinaryPath ==
    IF ~host.pluginDir THEN NoPath
    ELSE IF host.os = "win32" THEN "bin/cloudflared.exe"
    ELSE "bin/cloudflared"

\* The line `which cloudflared` / `where cloudflared.exe` prints.
WhichPath == "$PATH/cloudflared"

\* systemPaths of _ensureCloudflared.
SystemPaths(os) ==
    IF os = "darwin"
    THEN <<"/opt/homebrew/bin/cloudflared", "/usr/local/bin/cloudflared">>
    ELSE IF os = "linux"
    THEN <<"/usr/local/bin/cloudflared", "/usr/bin/cloudflared">>
    ELSE IF os = "win32"
    THEN <<"C:\\Program Files\\Cloudflare\\cloudflared.exe",
           "C:\\Program Files (x86)\\Cloudflare\\cloudflared.exe">>
    ELSE <<>>

\* A candidate tried: found = it exists (the search printed it), ran = the
\* version query was run on it, ok = the version query succeeds on it.
Tried(path, found, ran, ok) ==
    [path |-> path, found |-> found, ran |-> ran, ok |-> ok]

\* Step 1: the managed copy, when it exists, is run with --version.
LocalProbe ==
    IF GetLocalBinaryPath = NoPath THEN <<>>
    ELSE << Tried(GetLocalBinaryPath, managed # "absent", managed # "absent",
                  managed = "good") >>

\* The system candidates tried regardless of useBundledOnly.
SystemProbesAlways(useBundledOnly) ==
    LET paths == SystemPaths(host.os)
        which == Tried(WhichPath, host.which # "none", FALSE,
                       host.which = "works")
        First == IF \E i \in 1..Len(paths) : host.wk[i]
                 THEN CHOOSE i \in 1..Len(paths) :
                          host.wk[i] /\ \A j \in 1..(i - 1) : ~host.wk[j]
                 ELSE Len(paths)
    IN  IF which.found THEN <<which>>
        ELSE <<which>> \o [i \in 1..First |->
                              Tried(paths[i], host.wk[i], TRUE, host.wk[i])]

\* Steps 2 and 3: the command search, whose result is returned as printed,
\* then the well-known paths in list order, each run with --version, up to
\* the first that succeeds.  Nothing is tried when useBundledOnly is true.
SystemProbes(useBundledOnly) ==
    IF useBundledOnly THEN <<>> ELSE SystemProbesAlways(useBundledOnly)

\* The candidate a probe accepts: the managed copy and a well-known path
\* when the version query succeeds, the command search's result when found.
Accepted(t) == IF t.ran THEN t.ok ELSE t.found

\* The synchronous part of _ensureCloudflared(useBundledOnly): the candidates
\* tried and what follows: a path returned, an error thrown, or "download".
EnsureCloudflared(useBundledOnly) ==
    LET local == LocalProbe
        hitLocal == local # <<>> /\ Accepted(local[1])
        sys == IF hitLocal THEN <<>> ELSE SystemProbes(useBundledOnly)
        trail == local \o sys
        hitSys == sys # <<>> /\ Accepted(sys[Len(sys)])
    IN  [trail |-> trail,
         then |-> IF hitLocal THEN local[1].path
                  ELSE IF hitSys THEN sys[Len(sys)].path
                  ELSE IF host.pluginDir THEN "download"
                  ELSE IF useBundledOnly THEN "BundledOnlyWithoutPluginDir"
                  ELSE "NotFound"]

\* Resolutions are entered one after another.
IsNextResolve(r) == IF r = 1 THEN TRUE ELSE resolution[r - 1].pc # "new"

Done(result) == [pc |-> "done", result |-> result]

\* _ensureCloudflared(useBundledOnly) up to its first await: the probes, and
\* when a download follows _downloadCloudflared up to https.get: a null
\* download info throws, else the bin directory is made and the request sent.
Resolve(r, useBundledOnly) ==
    /\ resolution[r].pc = "new"
    /\ IsNextResolve(r)
    /\ LET e == EnsureCloudflared(useBundledOnly)
           info == GetDownloadInfo(host.os, host.cpu)
       IN  IF e.then # "download"
           THEN /\ resolution' = [resolution EXCEPT ![r] = Done(e.then)]
                /\ probe' = [r |-> r, bundled |-> useBundledOnly,
                             trail |-> e.trail, asset |-> "none"]
                /\ UNCHANGED binDir
           ELSE IF info = NoInfo
           THEN /\ resolution' = [resolution EXCEPT
                                     ![r] = Done("UnsupportedPlatform")]
                /\ probe' = [r |-> r, bundled |-> useBundledOnly,
                             trail |-> e.trail, asset |-> "none"]
                /\ UNCHANGED binDir
           ELSE /\ resolution' = [resolution EXCEPT ![r].pc = "requesting"]
                /\ probe' = [r |-> r, bundled |-> useBundledOnly,
                             trail |-> e.trail, asset |-> info.filename]
                /\ binDir' = TRUE
    /\ UNCHANGED <<host, managed, ctl>>
    /\ UNCHANGED <<allvars, dvars>>

\* handleResponse(response) that opens the destination exclusively: the
\* open fails when another download holds the file open.
ResponseExclusive(r, ok) ==
    /\ resolution[r].pc = "requesting"
    /\ IF ~ok
       THEN /\ resolution' = [resolution EXCEPT ![r] = Done("DownloadFailed")]
            /\ UNCHANGED managed
       ELSE IF ~\E q \in Resolves :
                   q # r /\ resolution[q].pc \in {"streaming", "stalled"}
       THEN /\ resolution' = [resolution EXCEPT ![r].pc = "streaming"]
            /\ managed' = IF GetDownloadInfo(host.os, host.cpu).needsExtraction
                          THEN managed ELSE "partial"
       ELSE /\ resolution' = [resolution EXCEPT ![r] = Done("StreamError")]
            /\ UNCHANGED managed
    /\ UNCHANGED <<host, binDir, probe, ctl>>
    /\ UNCHANGED <<allvars, dvars>>

\* handleResponse(response) of _downloadFile, redirects followed: a status
\* other than 200 or a request error rejects; on 200 createWriteStream(destPath)
\* opens (and truncates) the destination: the managed file itself, or
\* cloudflared.tgz on macOS.
Response(r, ok) ==
    /\ resolution[r].pc = "requesting"
    /\ IF ok
       THEN /\ resolution' = [resolution EXCEPT ![r].pc = "streaming"]
            /\ managed' = IF GetDownloadInfo(host.os, host.cpu).needsExtraction
                          THEN managed ELSE "partial"
       ELSE /\ resolution' = [resolution EXCEPT ![r] = Done("DownloadFailed")]
            /\ UNCHANGED managed
    /\ UNCHANGED <<host, binDir, probe, ctl>>
    /\ UNCHANGED <<allvars, dvars>>

\* Another resolution holds the managed file open for writing.
OpenElsewhere(r) ==
    /\ ~GetDownloadInfo(host.os, host.cpu).needsExtraction
    /\ \E q \in Resolves : q # r /\ resolution[q].pc \in {"streaming", "stalled"}

\* The file stream's 'finish' and the rest of _downloadCloudflared: on macOS
\* tar extracts the binary over the managed file (or fails), then the file
\* is run with --version; it is returned only when that succeeds.  A file
\* that another stream still writes cannot be executed.
Finish(r, content, extracted) ==
    /\ resolution[r].pc = "streaming"
    /\ LET info == GetDownloadInfo(host.os, host.cpu)
       IN  IF info.needsExtraction /\ ~extracted
           THEN /\ resolution' = [resolution EXCEPT ![r] = Done("ExtractFailed")]
                /\ UNCHANGED managed
           ELSE /\ managed' = IF OpenElsewhere(r) THEN "partial" ELSE content
                /\ resolution' = [resolution EXCEPT ![r] =
                                     IF managed' = "good"
                                     THEN Done(GetLocalBinaryPath)
                                     ELSE Done("FailedToRun")]
    /\ UNCHANGED <<host, binDir, probe, ctl>>
    /\ UNCHANGED <<allvars, dvars>>

\* The file stream's 'error': unlinkSync(destPath), then reject.
StreamError(r) ==
    /\ resolution[r].pc = "streaming"
    /\ managed' = IF GetDownloadInfo(host.os, host.cpu).needsExtraction
                  THEN managed ELSE "absent"
    /\ resolution' = [resolution EXCEPT ![r] = Done("StreamError")]
    /\ UNCHANGED <<host, binDir, probe, ctl>>
    /\ UNCHANGED <<allvars, dvars>>

\* The response stops before its end (the connection is reset, or no more
\* data arrives): nothing listens for it, the file stream stays open and the
\* promise of _downloadFile is never settled.
Stall(r) ==
    /\ resolution[r].pc = "streaming"
    /\ resolution' = [resolution EXCEPT ![r].pc = "stalled"]
    /\ UNCHANGED <<host, managed, binDir, probe, ctl>>
    /\ UNCHANGED <<allvars, dvars>>

\* Any machine, with the managed file absent, pre-seeded and working, or
\* pre-seeded and not working (a managed file needs the plugin directory).
ResolveInit ==
    /\ TunnelInit
    /\ ServerInit
    /\ ControllerIdle
    /\ StreamsIdle
    /\ host \in Hosts
    /\ managed \in {"absent", "good", "bad"}
    /\ host.pluginDir \/ managed = "absent"
    /\ binDir = (managed # "absent")
    /\ resolution = [r \in Resolves |-> [pc |-> "new", result |-> NoResult]]
    /\ probe = [r |-> Null, bundled |-> FALSE, trail |-> <<>>, asset |-> "none"]

ResolveNext ==
    \/ \E r \in Resolves : \E useBundledOnly \in BOOLEAN : Resolve(r, useBundledOnly)
    \/ \E r \in Resolves : \E ok \in BOOLEAN : Response(r, ok)
    \/ \E r \in Resolves : \E content \in {"good", "bad"} :
           \E extracted \in BOOLEAN : Finish(r, content, extracted)
    \/ \E r \in Resolves : StreamError(r)
    \/ \E r \in Resolves : Stall(r)

ResolveSpec == ResolveInit /\ [][ResolveNext]_<<allvars, rest>>

----------------------------------------------------------------------------
\* Resolution r is entered at this step (its synchronous part runs).
ResolveStep(r) == resolution[r].pc = "new" /\ resolution'[r].pc # "new"

\* The download of resolution r ends at this step.
FinishStep(r) == resolution[r].pc = "streaming" /\ resolution'[r].pc = "done"

\* The candidates in the order of the resolution: the managed copy, the
\* command search's copy, the well-known paths.
Order == <<GetLocalBinaryPath, WhichPath>> \o SystemPaths(host.os)

Paths == { Order[i] : i \in 1..Len(Order) } \ {NoPath}

\* What makes the i-th candidate qualify at its step: the managed copy
\* exists and answers the version query, the command search finds a copy, a
\* well-known path answers the version query.
Qualifies(i) ==
    IF i = 1 THEN host.pluginDir /\ managed = "good"
    ELSE IF i = 2 THEN host.which # "none"
    ELSE host.wk[i - 2]

\* The candidates a resolution may use, and the first of them that qualifies
\* (0 when none does).
Eligible(useBundledOnly) == IF useBundledOnly THEN {1} ELSE 1..Len(Order)

FirstQualifying(useBundledOnly) ==
    LET q == { i \in Eligible(useBundledOnly) : Qualifies(i) }
    IN  IF q = {} THEN 0 ELSE CHOOSE i \in q : \A j \in q : i <= j

\* The candidates 1..k that exist as paths, in order.
UpTo(k) ==
    IF host.pluginDir THEN SubSeq(Order, 1, k) ELSE SubSeq(Order, 2, k)

LastEligible(useBundledOnly) == IF useBundledOnly THEN 1 ELSE Len(Order)

TrailPaths(trail) == [i \in 1..Len(trail) |-> trail[i].path]

\* C23: a resolution tries the candidates in the fixed order (managed copy,
\* command search, well-known paths in list order) and returns the first
\* that qualifies, trying none after it; it goes on to a download (or
\* fails) only after every candidate it may use has missed; with
\* useBundledOnly it tries only the managed copy and never returns a system
\* copy.
C23_FirstQualifyingInOrder ==
    [][\A r \in Resolves :
          ResolveStep(r)
          => LET b == probe'.bundled
                 f == FirstQualifying(b)
             IN  /\ probe'.r = r
                 /\ IF f # 0
                    THEN /\ resolution'[r] = Done(Order[f])
                         /\ TrailPaths(probe'.trail) = UpTo(f)
                    ELSE /\ resolution'[r].result \notin Paths
                         /\ TrailPaths(probe'.trail) = UpTo(LastEligible(b))
                 /\ b => /\ \A i \in 1..Len(probe'.trail) :
                                probe'.trail[i].path = GetLocalBinaryPath
                         /\ resolution'[r].result \notin
                                Paths \ {GetLocalBinaryPath}
      ]_<<allvars, rest>>

\* A resolution without useBundledOnly returned the second well-known path
\* after the managed copy, the command search and the first well-known path
\* missed; and one with useBundledOnly went on to a download on a machine
\* whose command search finds a copy.
C23_SecondWellKnownPathReturned ==
    /\ probe.r # Null
    /\ ~probe.bundled
    /\ Len(probe.trail) = 4
    /\ resolution[probe.r] = Done(SystemPaths(host.os)[2])

C23_BundledOnlySkippedSystemCopy ==
    /\ probe.r # Null
    /\ probe.bundled
    /\ host.which = "works"
    /\ resolution[probe.r].pc = "requesting"

\* The path resolution r returns at this step.
Returns(r) ==
    /\ resolution[r].pc # "done"
    /\ resolution'[r].pc = "done"
    /\ resolution'[r].result \in Paths

\* C24: every path a resolution returns passed the version query during
\* that resolution: the candidate the probes end with was run and answered,
\* and a downloaded file is returned only when it answers.
C24_ReturnedPathWasVerified ==
    [][\A r \in Resolves :
          Returns(r)
          => /\ ResolveStep(r)
                => LET last == probe'.trail[Len(probe'.trail)]
                   IN  /\ last.path = resolution'[r].result
                       /\ last.ran
                       /\ last.ok
             /\ FinishStep(r) => managed' = "good"
      ]_<<allvars, rest>>

\* Holds: apart from the command search's result, every returned path was
\* run with the version query and answered it.
ReturnedPathWasVerifiedUnlessSearched ==
    [][\A r \in Resolves :
          (Returns(r) /\ resolution'[r].result # WhichPath)
          => /\ ResolveStep(r)
                => LET last == probe'.trail[Len(probe'.trail)]
                   IN  /\ last.path = resolution'[r].result
                       /\ last.ran
                       /\ last.ok
             /\ FinishStep(r) => managed' = "good"
      ]_<<allvars, rest>>

\* The (OS, CPU architecture) pairs of the mapping table.
MappingTable ==
    { <<"darwin", "arm64">>, <<"darwin", "x64">>,
      <<"win32", "x64">>, <<"win32", "ia32">>,
      <<"linux", "arm64">>, <<"linux", "x64">>, <<"linux", "ia32">> }

\* The resolution entered at this step needs a download.
NeedsDownload(r) ==
    /\ ResolveStep(r)
    /\ EnsureCloudflared(probe'.bundled).then = "download"

\* C25: a resolution that needs a download on a pair outside the mapping
\* table rejects with the unsupported-platform error, creates no directory
\* or file and sends no request.
C25_AbsentPairRejected ==
    [][\A r \in Resolves :
          (NeedsDownload(r) /\ <<host.os, host.cpu>> \notin MappingTable)
          => /\ resolution'[r] = Done("UnsupportedPlatform")
             /\ binDir' = binDir
             /\ managed' = managed
      ]_<<allvars, rest>>

\* Holds: on an operating system outside the table the resolution rejects
\* with the unsupported-platform error before anything is created or sent.
AbsentOsRejected ==
    [][\A r \in Resolves :
          (NeedsDownload(r) /\ host.os \notin {"darwin", "win32", "linux"})
          => /\ resolution'[r] = Done("UnsupportedPlatform")
             /\ binDir' = binDir
             /\ managed' = managed
      ]_<<allvars, rest>>

\* Some resolution has ended with the managed path.
Provisioned ==
    \E q \in Resolves : resolution[q] = Done(GetLocalBinaryPath)

\* C26: once a resolution has ended with the managed binary, every
\* resolution entered later returns the managed path at step 1, sends no
\* request and writes nothing into the bin directory.
C26_ProvisioningIdempotent ==
    [][\A r \in Resolves :
          (ResolveStep(r) /\ Provisioned)
          => /\ resolution'[r] = Done(GetLocalBinaryPath)
             /\ Len(probe'.trail) = 1
             /\ binDir' = binDir
             /\ managed' = managed
      ]_<<allvars, rest>>

\* Holds: the same, when no download of another resolution is in flight
\* from the provisioning on.
NoDownloadInFlight ==
    \A q \in Resolves : resolution[q].pc \in {"new", "done"}

IdempotentWhenManagedFileGood ==
    [][\A r \in Resolves :
          (ResolveStep(r) /\ Provisioned /\ managed = "good")
          => /\ resolution'[r] = Done(GetLocalBinaryPath)
             /\ Len(probe'.trail) = 1
             /\ binDir' = binDir
             /\ managed' = managed
      ]_<<allvars, rest>>

ManagedFileStaysGood ==
    [][(Provisioned /\ managed = "good" /\ NoDownloadInFlight)
          => managed' = "good"]_<<allvars, rest>>

\* A download of another resolution is in flight.
OtherInFlight(r) ==
    \E q \in Resolves :
        q # r /\ resolution[q].pc \in {"requesting", "streaming", "stalled"}

\* C34: provisioning is not serialised: a resolution whose candidates all
\* miss sends its request although another download is in flight, and a
\* successful response opens (and truncates) the managed destination
\* although another download has it open.
C34_DownloadsNotSerialised ==
    [][\A r \in Resolves :
          /\ (/\ NeedsDownload(r)
              /\ OtherInFlight(r)
              /\ GetDownloadInfo(host.os, host.cpu) # NoInfo)
             => resolution'[r].pc = "requesting"
          /\ (/\ resolution[r].pc = "requesting"
              /\ resolution'[r].pc = "streaming"
              /\ ~GetDownloadInfo(host.os, host.cpu).needsExtraction)
             => managed' = "partial"
          /\ (/\ resolution[r].pc = "requesting"
              /\ resolution'[r].pc # "requesting"
              /\ OtherInFlight(r))
             => resolution'[r] \in { [pc |-> "streaming", result |-> NoResult],
                                     Done("DownloadFailed") }
      ]_<<allvars, rest>>

\* C34 witness: two resolutions are streaming into the same managed file.
C34_TwoDownloadsWriting ==
    /\ ~GetDownloadInfo(host.os, host.cpu).needsExtraction
    /\ \E q, r \in Resolves :
           /\ q # r
           /\ resolution[q].pc = "streaming"
           /\ resolution[r].pc = "streaming"
    /\ managed = "partial"

\* The provisioning with a network that always answers a request and always
\* ends, breaks or stops a response.
ResolveLiveSpec ==
    /\ ResolveSpec
    /\ \A r \in Resolves :
           /\ WF_<<allvars, rest>>(\E ok \in BOOLEAN : Response(r, ok))
           /\ WF_<<allvars, rest>>(
                  \/ \E content \in {"good", "bad"} :
                         \E extracted \in BOOLEAN : Finish(r, content, extracted)
                  \/ StreamError(r)
                  \/ Stall(r))

\* C33: every resolution that was entered ends (start() awaits it, so the
\* start() call settles).
C33_EveryResolutionEnds ==
    \A r \in Resolves :
        (resolution[r].pc # "new") ~> (resolution[r].pc = "done")

\* Holds: a resolution whose download is answered ends unless its response
\* stops before the end.
ResolutionEndsUnlessStalled ==
    \A r \in Resolves :
        (resolution[r].pc # "new")
            ~> (resolution[r].pc \in {"done", "stalled"})

\* The supervisor with timers that fire.
TimedSpec == Spec /\ \A c \in Calls : WF_vars(TimerFire(c))

\* Holds: a start() call that has spawned its subprocess settles.
SpawnedCallSettles ==
    \A c \in Calls : (pc[c] = "acquiring") ~> Settled(c)

(***************************************************************************)
(* PluginController.enableServer and disableServer driving the dispatcher   *)
(* and the supervisor.  ctl = [phase, srv, tun, stop, notice, publicUrl]:   *)
(* the await the running command is at, the start() / stop() calls it made, *)
(* the Notice it showed last, and this.publicUrl.  A continuation after an  *)
(* await is a microtask: it runs before the next event is delivered.        *)
(* Under ControllerSpec the commands are given one after another; under     *)
(* CommandSpec a disableServer or cleanup (ctl.halt, ctl.haltCmd) may run   *)
(* while an enableServer is at an await.                                    *)
(***************************************************************************)

SegGmVault == <<"gm-vault">>

\* _registerRoutes(): GET /gm-vault, GET /pages/:slug and GET /images/*.
ControllerRoutes ==
    << [method |-> "GET", path |-> <<SegGmVault>>, fn |-> "gm-vault"],
       [method |-> "GET", path |-> PagesSlug, fn |-> "pages"],
       [method |-> "GET", path |-> ImagesStar, fn |-> "images"] >>

\* The requests made of the controller's dispatcher: GET /pages/index and
\* GET //.
ControllerRequests ==
    { [method |-> "GET", target |-> t] :
        t \in { <<SegPages, SegIndex>>, <<SegEmpty, SegEmpty>> } }

\* this.routes.set(method + ':' + path, handler) on the Map rs.
SetRoute(rs, r) ==
    IF \E i \in 1..Len(rs) : rs[i].method = r.method /\ rs[i].path = r.path
    THEN [i \in 1..Len(rs) |->
             IF rs[i].method = r.method /\ rs[i].path = r.path
             THEN r ELSE rs[i]]
    ELSE Append(rs, r)

\* A continuation of the running command is due.
MicrotaskDue ==
    \/ ctl.phase = "startingServer" /\ srvStart[ctl.srv] # "pending"
    \/ ctl.phase = "startingTunnel" /\ Settled(ctl.tun)
    \/ ctl.phase = "stoppingTunnel"
    \/ ctl.phase = "stoppingServer" /\ srvStop[ctl.stop].kind = "resolved"

\* enableServer() up to `await this.serverManager.start()`.
EnableServer ==
    /\ ctl.phase = "idle"
    /\ \E c \in StartCalls :
           /\ SrvStart(c)
           /\ ctl' = [ctl EXCEPT !.phase = "startingServer", !.srv = c]
    /\ UNCHANGED <<pvars, dvars>>

\* After `await this.serverManager.start()`: this._registerRoutes() and the
\* 500 ms wait; a rejection goes to the catch, which shows a Notice.
ServerStarted ==
    /\ ctl.phase = "startingServer"
    /\ srvStart[ctl.srv] # "pending"
    /\ IF srvStart[ctl.srv] = "resolved"
       THEN /\ routes' = SetRoute(SetRoute(SetRoute(routes,
                             ControllerRoutes[1]), ControllerRoutes[2]),
                             ControllerRoutes[3])
            /\ regs' = regs \o ControllerRoutes
            /\ ctl' = [ctl EXCEPT !.phase = "waiting"]
       ELSE /\ ctl' = [ctl EXCEPT !.phase = "idle", !.notice = "serverFailed"]
            /\ UNCHANGED <<routes, regs>>
    /\ UNCHANGED <<server, lsn, srvStart, srvStop, resp>>
    /\ UNCHANGED <<vars, pvars, dvars>>

\* The 500 ms timer: `await this.tunnelManager.start(...)`.
StartTunnel ==
    /\ ctl.phase = "waiting"
    /\ \E c \in Calls :
           /\ StartCall(c)
           /\ ctl' = [ctl EXCEPT !.phase = "startingTunnel", !.tun = c]
    /\ UNCHANGED <<pvars, dvars>>

\* After the await of tunnelManager.start() with a catch that stops the
\* dispatcher when the tunnel failed.
TunnelSettledStopServer ==
    /\ ctl.phase = "startingTunnel"
    /\ Settled(ctl.tun)
    /\ IF outcome[ctl.tun].kind = "resolved"
       THEN /\ ctl' = [ctl EXCEPT !.phase = "idle", !.notice = "enabled",
                                  !.publicUrl = outcome[ctl.tun].val]
            /\ UNCHANGED svars
       ELSE /\ ctl' = [ctl EXCEPT !.phase = "idle", !.notice = "tunnelFailed"]
            /\ lsn' = [lsn EXCEPT ![ctl.srv].closing = TRUE]
            /\ UNCHANGED <<server, srvStart, srvStop, routes, regs, resp>>
    /\ UNCHANGED <<vars, pvars, dvars>>

\* After the await of tunnelManager.start(): the URL is stored and shown; a
\* rejection goes to the catch, which shows a Notice and does nothing else.
TunnelSettled ==
    /\ ctl.phase = "startingTunnel"
    /\ Settled(ctl.tun)
    /\ IF outcome[ctl.tun].kind = "resolved"
       THEN ctl' = [ctl EXCEPT !.phase = "idle", !.notice = "enabled",
                               !.publicUrl = outcome[ctl.tun].val]
       ELSE ctl' = [ctl EXCEPT !.phase = "idle", !.notice = "tunnelFailed"]
    /\ UNCHANGED <<vars, svars, pvars, dvars>>

\* disableServer(): tunnelManager.stop() when the tunnel is active, else
\* straight to serverManager.stop().
DisableServer ==
    /\ ctl.phase = "idle"
    /\ IF isActive
       THEN /\ Stop
            /\ ctl' = [ctl EXCEPT !.phase = "stoppingTunnel"]
       ELSE \E k \in StopCalls :
               /\ SrvStop(k)
               /\ ctl' = [ctl EXCEPT !.phase = "stoppingServer", !.stop = k]
    /\ UNCHANGED <<pvars, dvars>>

\* After `await this.tunnelManager.stop()`: `await this.serverManager.stop()`.
StopServer ==
    /\ ctl.phase = "stoppingTunnel"
    /\ \E k \in StopCalls :
           /\ SrvStop(k)
           /\ ctl' = [ctl EXCEPT !.phase = "stoppingServer", !.stop = k]
    /\ UNCHANGED <<pvars, dvars>>

\* After `await this.serverManager.stop()`: this.publicUrl = null, Notice.
ServerStopped ==
    /\ ctl.phase = "stoppingServer"
    /\ srvStop[ctl.stop].kind = "resolved"
    /\ ctl' = [ctl EXCEPT !.phase = "idle", !.notice = "disabled",
                          !.publicUrl = NullUrl]
    /\ UNCHANGED <<vars, svars, pvars, dvars>>

ControllerNext ==
    \/ Len(regs) + Len(ControllerRoutes) <= MaxRoutes /\ EnableServer
    \/ ServerStarted
    \/ StartTunnel
    \/ TunnelSettled
    \/ DisableServer
    \/ StopServer
    \/ ServerStopped
    \/ \E c \in StartCalls :
           ~MicrotaskDue /\ SrvListening(c) /\ UNCHANGED rest
    \/ \E c \in StartCalls : ~MicrotaskDue /\ SrvError(c) /\ UNCHANGED rest
    \/ \E c \in StartCalls : ~MicrotaskDue /\ SrvClosed(c) /\ UNCHANGED rest
    \/ \E req \in ControllerRequests :
           ~MicrotaskDue /\ HandleRequest(req) /\ UNCHANGED rest
    \/ \E c \in Calls : ~MicrotaskDue /\ EnsureDone(c) /\ UNCHANGED rest
    \/ \E c \in Calls : \E text \in ChunkTexts :
           ~MicrotaskDue /\ OnData(c, text) /\ UNCHANGED rest
    \/ \E c \in Calls : ~MicrotaskDue /\ OnError(c) /\ UNCHANGED rest
    \/ \E c \in Calls : ~MicrotaskDue /\ OnClose(c) /\ UNCHANGED rest
    \/ \E c \in Calls : ~MicrotaskDue /\ TimerFire(c) /\ UNCHANGED rest

ControllerSpec == Init /\ [][ControllerNext]_<<allvars, rest>>

\* A continuation of a disableServer or cleanup that runs beside an
\* enableServer is due.
HaltMicrotaskDue ==
    \/ ctl.halt = "stoppingTunnel"
    \/ ctl.halt = "stoppingServer" /\ srvStop[ctl.stop].kind = "resolved"

\* serverManager.stop() as disableServer calls it (always) and as cleanup
\* calls it (when isRunning()).
HaltServer(cmd) ==
    IF cmd = "cleanup" /\ ~isRunning
    THEN /\ ctl' = [ctl EXCEPT !.halt = "idle", !.haltCmd = cmd]
         /\ UNCHANGED <<vars, svars>>
    ELSE \E k \in StopCalls :
            /\ SrvStop(k)
            /\ ctl' = [ctl EXCEPT !.halt = "stoppingServer", !.haltCmd = cmd,
                                  !.stop = k]

\* disableServer() or cleanup(), whatever enableServer is doing:
\* tunnelManager.stop() when the tunnel is active, else on to the server.
Halt(cmd) ==
    /\ ctl.halt = "idle"
    /\ IF isActive
       THEN /\ Stop
            /\ ctl' = [ctl EXCEPT !.halt = "stoppingTunnel", !.haltCmd = cmd]
       ELSE HaltServer(cmd)
    /\ UNCHANGED <<pvars, dvars>>

\* After `await this.tunnelManager.stop()`.
HaltStopServer ==
    /\ ctl.halt = "stoppingTunnel"
    /\ HaltServer(ctl.haltCmd)
    /\ UNCHANGED <<pvars, dvars>>

\* After `await this.serverManager.stop()`: disableServer sets
\* this.publicUrl = null and shows a Notice; cleanup returns.
HaltDone ==
    /\ ctl.halt = "stoppingServer"
    /\ srvStop[ctl.stop].kind = "resolved"
    /\ ctl' = IF ctl.haltCmd = "disable"
              THEN [ctl EXCEPT !.halt = "idle", !.notice = "disabled",
                               !.publicUrl = NullUrl]
              ELSE [ctl EXCEPT !.halt = "idle"]
    /\ UNCHANGED <<vars, svars, pvars, dvars>>

\* No continuation is due: the next event is delivered.
Quiet == ~MicrotaskDue /\ ~HaltMicrotaskDue

CommandNext ==
    \/ Quiet /\ EnableServer
    \/ ServerStarted
    \/ Quiet /\ StartTunnel
    \/ TunnelSettled
    \/ \E cmd \in {"disable", "cleanup"} : Quiet /\ Halt(cmd)
    \/ HaltStopServer
    \/ HaltDone
    \/ \E c \in StartCalls : Quiet /\ SrvListening(c) /\ UNCHANGED rest
    \/ \E c \in StartCalls : Quiet /\ SrvError(c) /\ UNCHANGED rest
    \/ \E c \in StartCalls : Quiet /\ SrvClosed(c) /\ UNCHANGED rest
    \/ Quiet /\ HandleRequest([method |-> "GET", target |-> <<SegPages, SegIndex>>])
          /\ UNCHANGED rest
    \/ \E c \in Calls : Quiet /\ EnsureDone(c) /\ UNCHANGED rest
    \/ \E c \in Calls : \E text \in ChunkTexts :
           Quiet /\ OnData(c, text) /\ UNCHANGED rest
    \/ \E c \in Calls : Quiet /\ OnError(c) /\ UNCHANGED rest
    \/ \E c \in Calls : Quiet /\ OnClose(c) /\ UNCHANGED rest
    \/ \E c \in Calls : Quiet /\ TimerFire(c) /\ UNCHANGED rest

CommandSpec == Init /\ [][CommandNext]_<<allvars, rest>>

----------------------------------------------------------------------------
\* The promise of start() call c is rejected at this step.
Rejects(c) ==
    /\ outcome[c].kind \in {"none", "pending"}
    /\ outcome'[c].kind \notin {"none", "pending", "resolved"}

\* enableServer has ended in its catch after a failed tunnel acquisition and
\* no other command has been given since.
TunnelFailed == ctl.phase = "idle" /\ ctl.notice = "tunnelFailed"

\* C27: a rejection of TunnelManager.start(), and the catch of enableServer
\* that receives it, leave every field of the ServerManager unchanged; after
\* the failed acquisition the dispatcher that enableServer started is still
\* held and listening with its routes, and a request is still dispatched to
\* its handler.
C27_TunnelFailureLeavesDispatcher ==
    [][/\ \A c \in Calls : Rejects(c) => UNCHANGED svars
       /\ (ctl.phase = "startingTunnel" /\ TunnelFailed') => UNCHANGED svars
       /\ TunnelFailed'
          => /\ server' = ctl'.srv
             /\ lsn'[ctl'.srv].st = "listening"
             /\ routes' = ControllerRoutes
       /\ (TunnelFailed /\ resp' # resp
              /\ resp'.req = [method |-> "GET", target |-> <<SegPages, SegIndex>>])
          => resp'.invoked = <<"pages">>
      ]_<<allvars, rest>>

\* After a failed tunnel acquisition a request was answered by its handler.
C27_DispatchedAfterTunnelFailure ==
    /\ TunnelFailed
    /\ \E c \in Calls : outcome[c].kind \notin {"none", "pending", "resolved"}
    /\ Dispatching(ctl.srv)
    /\ resp.invoked = <<"pages">>

\* C30: registerRoute is never called between a start() that has succeeded
\* and the completion of the stop() that closes its server.
C30_NoRegistrationWhileListening ==
    [][regs' # regs
          => \A c \in StartCalls :
                 srvStart[c] = "resolved" => lsn[c].st = "closed"
      ]_<<allvars, rest>>

\* Holds: no request is dispatched between the moment the server listens and
\* the registration of the routes: a request that reaches the controller's
\* dispatcher finds the three routes.
RoutesRegisteredBeforeFirstRequest ==
    [][resp' # resp => routes = ControllerRoutes]_<<allvars, rest>>

\* enableServer has failed at the tunnel, its dispatcher is still held and
\* listening, and no disableServer or cleanup has been given since.
LeftListening ==
    /\ TunnelFailed
    /\ ctl.halt = "idle"
    /\ server = ctl.srv
    /\ Dispatching(ctl.srv) /\ ~lsn[ctl.srv].closing

\* C40: enableServer called again after a failed tunnel acquisition, with no
\* disableServer in between, gets past the dispatcher's start: its
\* serverManager.start() is not rejected as already running.
C40_SecondEnableReachesTunnel ==
    [][(LeftListening /\ ctl'.phase = "startingServer")
          => srvStart'[ctl'.srv] # "AlreadyRunning"]_<<allvars, rest>>

\* Holds: that second enableServer is rejected by serverManager.start() and
\* ends in the catch without calling tunnelManager.start().
SecondEnableEndsAtDispatcher ==
    [][/\ (LeftListening /\ ctl'.phase = "startingServer")
          => srvStart'[ctl'.srv] = "AlreadyRunning"
       /\ (/\ ctl.phase = "startingServer"
           /\ srvStart[ctl.srv] = "AlreadyRunning"
           /\ ctl'.phase # ctl.phase)
          => (/\ ctl'.phase = "idle"
              /\ ctl'.notice = "serverFailed"
              /\ UNCHANGED <<vars, svars>>)
      ]_<<allvars, rest>>

\* A tunnel subprocess that was spawned and has neither exited nor been
\* signalled.
TunnelRunning == \E c \in Calls : proc[c] = "running" /\ ~killed[c]

\* disableServer has completed and nothing is left to run.
DisableCompleted ==
    /\ ctl.notice = "disabled"
    /\ ctl.phase = "idle" /\ ctl.halt = "idle"
    /\ \A c \in Calls : pc[c] \in {"new", "done"}

\* C39: a tunnel subprocess runs only while the dispatcher is listening, and
\* once disableServer has completed and no callback is left no tunnel
\* subprocess runs and the controller's public URL is null.
C39_TunnelOnlyWhileListening ==
    /\ TunnelRunning => \E s \in StartCalls : Dispatching(s)
    /\ DisableCompleted => (~TunnelRunning /\ ctl.publicUrl = NullUrl)


----------------------------------------------------------------------------
(* The captured subprocess output.  The closure variables output and       *)
(* errorOutput of one start() call, and the text its errors carry.  The    *)
(* token "L" is a line of 300 characters that belong to no hostname.       *)

\* Chunks one subprocess writes on its two streams together.
MaxChunks == 3

\* fullOutput.substring(0, 500)
Cap == 500

\* The characters a token stands for.
Width(t) ==
    CASE t \in {"P", "Q"} -> 8
      [] t \in {"S", "T"} -> 18
      [] t = "L" -> 300
      [] OTHER -> 1

\* text.length
RECURSIVE Chars(_)
Chars(text) == IF text = <<>> THEN 0 ELSE Width(Head(text)) + Chars(Tail(text))

Min(a, b) == IF a < b THEN a ELSE b

\* text.substring(a, b), as the range of characters of text it keeps.
Substring(text, a, b) == [from |-> Min(a, Chars(text)), to |-> Min(b, Chars(text))]

\* The chunks a subprocess writes: a long line, a hostname cut in two, and
\* a hostname in one piece.
StreamTexts ==
    { <<"L">>,
      <<"x", "P", "a">>,
      <<"S", "x">>,
      <<"P", "b", "S">> }

Streams == {"out", "err"}

\* Number of chunks call c has received.
Received(c) == capture[c].n

\* stdout / stderr 'data' handler: output += text (errorOutput += text),
\* then tryResolveUrl(text).
CaptureData(c, stream, text) ==
    /\ Received(c) < MaxChunks
    /\ OnData(c, text)
    /\ capture' = [capture EXCEPT ![c] =
                      [out |-> IF stream = "out" THEN @.out \o text ELSE @.out,
                       err |-> IF stream = "err" THEN @.err \o text ELSE @.err,
                       diag |-> @.diag,
                       n |-> @.n + 1]]
    /\ UNCHANGED <<pvars, ctl, download>>

\* output + errorOutput
FullOutput(c) == capture[c].out \o capture[c].err

\* 'close' handler: `Output: ${fullOutput.substring(0, 500)}` when there is
\* output and the exit is reported.
CaptureClose(c) ==
    /\ OnClose(c)
    /\ capture' = [capture EXCEPT ![c].diag =
                      IF /\ ~urlResolved[c]
                         /\ exitCode'[c] \notin {"0", "null"}
                         /\ FullOutput(c) # <<>>
                      THEN Substring(FullOutput(c), 0, Cap)
                      ELSE @]
    /\ UNCHANGED <<pvars, ctl, download>>

\* the setTimeout callback: (output + errorOutput).substring(0, 500)
CaptureTimer(c) ==
    /\ TimerFire(c)
    /\ capture' = [capture EXCEPT ![c].diag =
                      IF ~urlResolved[c]
                      THEN Substring(FullOutput(c), 0, Cap)
                      ELSE @]
    /\ UNCHANGED <<pvars, ctl, download>>

\* The start() calls of the capture specification: one session.
Sessions == {1}

\* The supervisor with the output of the subprocess of one start() call
\* recorded (every call has its own output and errorOutput).
CaptureNext ==
    \/ \E c \in Sessions : StartCall(c) /\ UNCHANGED rest
    \/ \E c \in Sessions : EnsureDone(c) /\ UNCHANGED rest
    \/ \E c \in Sessions : \E stream \in Streams : \E text \in StreamTexts :
           CaptureData(c, stream, text)
    \/ \E c \in Sessions : OnError(c) /\ UNCHANGED rest
    \/ \E c \in Sessions : CaptureClose(c)
    \/ \E c \in Sessions : CaptureTimer(c)
    \/ Stop /\ UNCHANGED rest

CaptureSpec == Init /\ [][CaptureNext]_<<vars, rest>>

\* The characters call c retains of the output of its subprocess.
Retained(c) == Chars(capture[c].out) + Chars(capture[c].err)

\* C31: in every reachable state the output a start() call retains of its
\* subprocess is at most Cap (500) characters long, and so is the output
\* text attached to a timeout or premature-exit error.
C31_CapturedOutputBounded ==
    \A c \in Calls :
        /\ Retained(c) <= Cap
        /\ capture[c].diag # NoDiag =>
               capture[c].diag.to - capture[c].diag.from <= Cap

\* The text attached to an error is at most Cap characters long, and it is
\* the beginning of the output: what is left out is the newest output.
AttachedOutputIsCappedPrefix ==
    \A c \in Calls :
        capture[c].diag # NoDiag =>
            /\ capture[c].diag.from = 0
            /\ capture[c].diag.to <= Cap

\* A call that was rejected with an error that leaves out part of the output.
AttachedOutputCut ==
    \E c \in Calls :
        /\ capture[c].diag # NoDiag
        /\ capture[c].diag.to < Chars(FullOutput(c))

HasHostname(text) == UrlMatch(text) # <<>>

\* C38: while the timer has not fired, a call whose subprocess has written,
\* on one stream, output that contains a hostname has resolved, however the
\* output was split into chunks.
C38_HostnameAcrossChunksResolves ==
    \A c \in Calls :
        (/\ timer[c] # "fired"
         /\ HasHostname(capture[c].out) \/ HasHostname(capture[c].err))
            => outcome[c].kind = "resolved"

\* A call resolved by a hostname that arrived in one chunk, after an earlier
\* chunk on the same stream.
ResolvedFromOneChunk ==
    \E c \in Calls :
        /\ outcome[c].kind = "resolved"
        /\ Received(c) = 2
        /\ capture[c].err = <<>>

\* A call that timed out although the output of its subprocess held a
\* hostname, which arrived in two chunks.
HostnameCutInTwo ==
    \E c \in Calls :
        /\ HasHostname(capture[c].out)
        /\ ~urlResolved[c]
        /\ outcome[c].kind = "Timeout"

----------------------------------------------------------------------------
(* One response of _downloadFile: the byte counter and the percentages     *)
(* passed to _reportProgress.                                              *)

\* Chunks one response delivers.
MaxPieces == 4

\* parseInt(response.headers['content-length'] || '0', 10): missing or zero,
\* and two known sizes.
Totals == {0, 7, 250}

\* chunk.length
PieceSizes == {1, 2, 5, 120}

\* Math.round((downloadedSize / totalSize) * 100)
Percent(downloadedSize, totalSize) ==
    (200 * downloadedSize + totalSize) \div (2 * totalSize)

\* A data handler that reports after every chunk.
ReportAlways(percent, lastReportedPercent) == TRUE

\* if (percent !== lastReportedPercent)
ReportDue(percent, lastReportedPercent) == percent # lastReportedPercent

\* handleResponse(response) of a response that is no redirect.
HandleResponse(ok, totalSize) ==
    /\ download.pc = "new"
    /\ download' = IF ok
                   THEN [pc |-> "streaming", total |-> totalSize, got |-> 0,
                         last |-> -1, reports |-> <<>>, n |-> 0]
                   ELSE [download EXCEPT !.pc = "rejected"]
    /\ UNCHANGED <<allvars, pvars, ctl, capture>>

\* response 'data' handler.  The response body is no longer than its
\* content-length.
DownloadData(size) ==
    /\ download.pc = "streaming"
    /\ download.n < MaxPieces
    /\ download.total > 0 => download.got + size <= download.total
    /\ LET downloadedSize == download.got + size
           report == /\ download.total > 0
                     /\ ReportDue(Percent(downloadedSize, download.total),
                                  download.last)
       IN  download' =
               [download EXCEPT
                   !.got = downloadedSize,
                   !.n = @ + 1,
                   !.last = IF report
                            THEN Percent(downloadedSize, download.total) ELSE @,
                   !.reports = IF report
                               THEN Append(@, Percent(downloadedSize, download.total))
                               ELSE @]
    /\ UNCHANGED <<allvars, pvars, ctl, capture>>

\* file 'finish' handler: file.close(); resolve()
DownloadFinish ==
    /\ download.pc = "streaming"
    /\ download' = [download EXCEPT !.pc = "done"]
    /\ UNCHANGED <<allvars, pvars, ctl, capture>>

DownloadNext ==
    \/ \E ok \in BOOLEAN : \E totalSize \in Totals : HandleResponse(ok, totalSize)
    \/ \E size \in PieceSizes : DownloadData(size)
    \/ DownloadFinish

DownloadSpec == Init /\ [][DownloadNext]_<<allvars, rest>>

StrictlyIncreasing(s) == \A i, j \in 1..Len(s) : i < j => s[i] < s[j]

\* A data step that passes a percentage to _reportProgress.
ReportStep == Len(download'.reports) > Len(download.reports)

\* C32: the percentages reported during one download with a known total
\* size are strictly increasing (so each is reported at most once), none is
\* reported when the total size is unknown, and a data step that reports
\* counts its chunk and leaves the download streaming like any other.
C32_ProgressStrictlyIncreasing ==
    /\ [](/\ download.total > 0 => StrictlyIncreasing(download.reports)
          /\ download.total = 0 => download.reports = <<>>)
    /\ [][ReportStep => /\ download'.pc = "streaming"
                        /\ download'.got > download.got
                        /\ download'.n = download.n + 1]_download

\* A download of known size in which a chunk was counted without a report,
\* after two percentages were reported.
C32_ReportSuppressed ==
    /\ download.total > 0
    /\ Len(download.reports) >= 2
    /\ download.n > Len(download.reports)
    /\ download.pc = "done"

====
